---- MODULE Spec2Model ----
(***************************************************************************)
(* A model of the Backup scripts: the snapshot tree and its diff engine    *)
(* (Impl/Snapshot.py), the mirror executor with its pending-commit /       *)
(* pending-delete protocol (Impl/Mirror.py, Impl/Destinations), and the    *)
(* offsite executor with its restore playback (Impl/Offsite.py).           *)
(***************************************************************************)
EXTENDS Integers, Sequences, FiniteSets, TLC

VARIABLES
    dThis,      \* SpecDiff: the snapshot whose Diff method is called ("self")
    dOther,     \* SpecDiff: the snapshot passed to Diff ("other")
    dOrder,     \* SpecDiff: iteration order of the children dictionaries
    dPhase,     \* SpecDiff: "init", "hashes" (compare_hashes=True) or "sizes"
    dDiffs,     \* SpecDiff: the list Diff produced
    dJson,      \* SpecPersist: the document Persist wrote
    local,      \* mirror: the local file system holding the input directory
    dest,       \* mirror: the file system below the destination directory
    step,       \* mirror: where the running Backup stands, "idle" when none runs
    force,      \* mirror: the force argument of the running Backup
    diffs,      \* mirror: the diffs of the running Backup
    todo,       \* mirror: tasks of the current phase that have not started
    writing,    \* mirror: add tasks that wrote their temporary file
    pending_delete_items,   \* mirror: results of the force walk and the Remove tasks
    pending_commit_items,   \* mirror: results of the Add tasks
    error,      \* mirror: a task of the current phase reported an error
    runs,       \* mirror: number of Backup runs started
    clean,      \* mirror: no run so far was interrupted or saw a task fail
    finalized,  \* mirror: number of runs that finalized their snapshot
    validated,  \* mirror: outcome of the last Validate
    mRun,       \* mirror: the arguments and the outcome of the last Backup call
    tampered,   \* mirror: the change made to the destination behind the mirror's back
    oLocal,     \* offsite: the local file system holding the input directory
    oSnapshot,  \* offsite: the committed snapshot file OffsiteBackup.<name>.json
    oPending,   \* offsite: the pending snapshot file OffsiteBackup.<name>.__pending__.json
    oWorking,   \* offsite: the dated directories preserved in the working directory
    oStore,     \* offsite: the dated directories at the destination, oldest first
    oProduced,  \* offsite: the local file system when the last directory was transferred
    oRun,       \* offsite: the arguments and the outcome of the last Backup or Commit
    oRestore,   \* offsite: arguments and outcome of the last Restore
    damaged,    \* offsite: the change made to the destination behind the backup's back
    oTransfer,  \* offsite: the dated directory the running Backup transfers, file by file
    oCommit,    \* offsite: position of the running Commit
    cleaned     \* mirror: the destination before and after a Cleanup that was interrupted

diffVars == <<dThis, dOther, dOrder, dPhase, dDiffs, dJson>>

runVars == <<step, force, diffs, todo, writing, pending_delete_items,
             pending_commit_items, error>>

mirrorVars == <<local, dest, runVars, runs, clean, finalized, validated, mRun,
                tampered>>

\* The operations that are followed step by step: the transfer of an offsite
\* Backup, the offsite Commit and the mirror Cleanup.
stepVars == <<oTransfer, oCommit, cleaned>>

offsiteVars == <<oLocal, oSnapshot, oPending, oWorking, oStore, oProduced, oRun,
                 oRestore, damaged, stepVars>>

vars == <<diffVars, mirrorVars, offsiteVars>>

(***************************************************************************)
(* Bounds of the model.                                                    *)
(***************************************************************************)
\* Number of distinct file contents.
NumContents == 2

\* Number of Backup runs.
MaxRuns == 2

\* Number of dated directories produced.
MaxBackups == 3

\* Number of Backup runs without a destination.
MaxPending == 1

\* The free bytes shutil.disk_usage reports: 85% of it is the size of one file
\* of content 1.
FreeBytes == 40

(***************************************************************************)
(* File contents, hashes and sizes.                                        *)
(***************************************************************************)
Contents == 1 .. NumContents

\* The bytes of a file whose writer stopped before the last chunk.
PartialContent == 0

\* hashlib.sha512 over the content: a digest that identifies the content.
HashOf(c) == c

\* stat().st_size of a file holding content c: contents c and c + NumContents
\* have the same size and different digests, contents 1 and 2 differ in size.
SizeOf(c) == 17 * (((((c - 1) % NumContents) + 1) % 2) + 1)

\* The literal "ignored" stored in the hash slot when calculate_hashes=False.
IgnoredHash == 0

\* file_size is None.
NoSize == -1

(***************************************************************************)
(* Snapshot.DirHashPlaceholder and the values of a hash slot.  A hash slot *)
(* holds a str, a DirHashPlaceholder or None; the three are one record     *)
(* shape here, told apart by k.                                            *)
(***************************************************************************)
DirHashPlaceholder(explicitly_added) ==
    [k |-> "dir", v |-> 0, explicitly_added |-> explicitly_added]

StrHash(h) == [k |-> "str", v |-> h, explicitly_added |-> FALSE]

None == [k |-> "none", v |-> 0, explicitly_added |-> FALSE]

\* DirHashPlaceholder.__eq__: two placeholders are equal whatever their flag;
\* strings compare by value.
HashEq(x, y) ==
    /\ x.k = y.k
    /\ x.k = "str" => x.v = y.v

(***************************************************************************)
(* Snapshot.Node.  A tree is a function from the paths of its non-root     *)
(* nodes (sequences of names) to [hash_value, file_size]; the children of  *)
(* a node are the paths one component longer, its parent the path one      *)
(* component shorter.  The root is the empty path.                         *)
(***************************************************************************)
\* A file or directory name is the sequence of its dot-separated parts:
\* "a" is <<"a">>, "a.__pending_commit__" is <<"a", "__pending_commit__">>.
\* A path is a sequence of names.
NameA == <<"a">>

NameB == <<"b">>

Names == {NameA, NameB}

Node(hash_value, file_size) == [hash_value |-> hash_value, file_size |-> file_size]

FileNode(c) == Node(StrHash(HashOf(c)), SizeOf(c))

DirNode(explicitly_added) == Node(DirHashPlaceholder(explicitly_added), NoSize)

\* The root every snapshot is built on: Node(None, None, DirHashPlaceholder(
\* explicitly_added=False), None).
RootNode == DirNode(FALSE)

EmptyTree == << >>

is_dir(n) == n.hash_value.k = "dir"

is_file(n) == n.hash_value.k = "str"

Parent(p) == SubSeq(p, 1, Len(p) - 1)

IsPrefix(q, p) == Len(q) <= Len(p) /\ SubSeq(p, 1, Len(q)) = q

\* The path itself and every directory above it, the root excluded.
Prefixes(p) == {SubSeq(p, 1, n) : n \in 1 .. Len(p)}

NodeAt(T, p) == IF p = << >> THEN RootNode ELSE T[p]

HasNode(T, p) == p = << >> \/ p \in DOMAIN T

ChildNames(T, p) ==
    {q[Len(q)] : q \in {r \in DOMAIN T : Len(r) = Len(p) + 1 /\ IsPrefix(p, r)}}

\* node.children.items() in the dictionary's iteration order.
children(T, p, order) == SelectSeq(order, LAMBDA n : n \in ChildNames(T, p))

\* The two orders in which a two-entry dictionary can be iterated.
Orders == {<<NameA, NameB>>, <<NameB, NameA>>}

\* A tree is well formed when every node's parent is a directory node.
WellFormed(T) ==
    \A p \in DOMAIN T :
        /\ Len(p) >= 1
        /\ Len(p) > 1 => (Parent(p) \in DOMAIN T /\ is_dir(T[Parent(p)]))

(***************************************************************************)
(* Snapshot.DiffResult.                                                    *)
(***************************************************************************)
DiffResult(operation, path, this_hash, this_file_size, other_hash, other_file_size) ==
    [operation |-> operation, path |-> path,
     this_hash |-> this_hash, this_file_size |-> this_file_size,
     other_hash |-> other_hash, other_file_size |-> other_file_size]

\* The positions of a list of diffs that hold one of the operations.
DiffsWithOperation(ds, operations) ==
    {i \in 1 .. Len(ds) : ds[i].operation \in operations}

\* A faulty variant of compare_func: the size-only comparison reads the digest
\* of the other node in place of its size.
compare_func_SizeAgainstHash(compare_hashes, a, b) ==
    IF compare_hashes
    THEN HashEq(a.hash_value, b.hash_value)
    ELSE a.file_size = b.hash_value.v

\* Snapshot.Diff: compare_func is hash equality or file_size equality.
compare_func(compare_hashes, a, b) ==
    IF compare_hashes
    THEN HashEq(a.hash_value, b.hash_value)
    ELSE a.file_size = b.file_size

\* CreateDiffs.UpdateAtomicResult
UpdateAtomicResult(atomic_result, result) ==
    IF atomic_result = "None" THEN result
    ELSE IF result # atomic_result THEN "modify"
    ELSE atomic_result

\* A faulty variant of KeepExplicitlyAdded: every directory counts as
\* explicitly added.
KeepExplicitlyAdded_Always(this_node, other_node) == TRUE

\* A faulty variant of KeepExplicitlyAdded: the flag of the other side is not read.
KeepExplicitlyAdded_ThisOnly(this_node, other_node) ==
    this_node.hash_value.explicitly_added

\* CreateDiffs, the test guarding the collapse: either placeholder is
\* explicitly_added.
KeepExplicitlyAdded(this_node, other_node) ==
    this_node.hash_value.explicitly_added \/ other_node.hash_value.explicitly_added

RECURSIVE CreateDiffsNone(_, _, _)
RECURSIVE CreateDiffsNoneSeq(_, _, _, _)
RECURSIVE CreateDiffs(_, _, _, _, _)
RECURSIVE ChildSummary(_, _, _, _, _)
RECURSIVE CreateDiffsChildren(_, _, _, _, _, _, _)

\* A faulty variant of CreateDiffsNone: the node itself is added, whatever it
\* holds.
CreateDiffsNone_NodeOnly(T, p, order) ==
    << DiffResult("add", p, NodeAt(T, p).hash_value, NodeAt(T, p).file_size,
                  None, NoSize) >>

\* CreateDiffs(other=None) on the node of T at p: add records for every leaf.
CreateDiffsNone(T, p, order) ==
    LET n == NodeAt(T, p) IN
    IF is_dir(n) /\ ChildNames(T, p) # {}
    THEN CreateDiffsNoneSeq(T, p, children(T, p, order), order)
    ELSE << DiffResult("add", p, n.hash_value, n.file_size, None, NoSize) >>

CreateDiffsNoneSeq(T, p, cs, order) ==
    IF cs = << >> THEN << >>
    ELSE CreateDiffsNone(T, p \o <<Head(cs)>>, order)
            \o CreateDiffsNoneSeq(T, p, Tail(cs), order)

\* A faulty variant of RemovedChildren: the loop stops after the first key of
\* other.children that is not in self.children.
RemovedChildren_FirstOnly(this, other, p, order) ==
    LET rm == SelectSeq(children(other, p, order),
                        LAMBDA n : n \notin ChildNames(this, p))
    IN [i \in 1 .. (IF rm = << >> THEN 0 ELSE 1) |->
            DiffResult("remove", p \o <<rm[i]>>, None, NoSize,
                       other[p \o <<rm[i]>>].hash_value,
                       other[p \o <<rm[i]>>].file_size)]

\* The removes a directory pair emits for the keys of other.children that are
\* not in self.children.
RemovedChildren(this, other, p, order) ==
    LET rm == SelectSeq(children(other, p, order),
                        LAMBDA n : n \notin ChildNames(this, p))
    IN [i \in 1 .. Len(rm) |->
            DiffResult("remove", p \o <<rm[i]>>, None, NoSize,
                       other[p \o <<rm[i]>>].hash_value,
                       other[p \o <<rm[i]>>].file_size)]

\* CreateDiffs on the nodes of this and other at the same path p (both exist).
\* Returns the pair (diffs, atomic result) as a record.
CreateDiffs(this, other, p, compare_hashes, order) ==
    LET s == NodeAt(this, p)
        o == NodeAt(other, p)
    IN
    IF is_file(s) \/ is_file(o)
    THEN IF is_file(s) /\ is_file(o)
         THEN IF compare_func(compare_hashes, s, o)
              THEN [diffs |-> << >>, result |-> "None"]
              ELSE [diffs |-> << DiffResult("modify", p, s.hash_value, s.file_size,
                                            o.hash_value, o.file_size) >>,
                    result |-> "modify"]
         ELSE \* The type has changed
              [diffs |-> << DiffResult("remove", p, None, NoSize,
                                       o.hash_value, o.file_size) >>
                            \o CreateDiffsNone(this, p, order),
               result |-> "modify"]
    ELSE
        LET acc == ChildSummary(this, other, p, compare_hashes, order) IN
        IF acc.result = "remove"
        THEN IF KeepExplicitlyAdded(s, o)
             THEN [diffs |-> acc.diffs, result |-> "modify"]
             ELSE [diffs |-> << DiffResult("remove", p, None, NoSize,
                                           o.hash_value, o.file_size) >>,
                   result |-> "remove"]
        ELSE acc

\* CreateDiffs on a directory pair, before the collapse: the diffs of the two
\* loops over the children with atomic_result, the combined child summary.
ChildSummary(this, other, p, compare_hashes, order) ==
    LET removes == RemovedChildren(this, other, p, order)
        start == [diffs |-> removes,
                  result |-> IF removes = << >> THEN "None" ELSE "remove"]
    IN CreateDiffsChildren(this, other, p, children(this, p, order),
                           start, compare_hashes, order)

\* The loop over self.children of a directory pair.
CreateDiffsChildren(this, other, p, cs, acc, compare_hashes, order) ==
    IF cs = << >> THEN acc
    ELSE
        LET q == p \o <<Head(cs)>>
            child == IF q \in DOMAIN other
                     THEN CreateDiffs(this, other, q, compare_hashes, order)
                     ELSE [diffs |-> CreateDiffsNone(this, q, order), result |-> "add"]
        IN CreateDiffsChildren(this, other, p, Tail(cs),
                               [diffs |-> acc.diffs \o child.diffs,
                                result |-> UpdateAtomicResult(acc.result, child.result)],
                               compare_hashes, order)

\* Snapshot.Diff
Diff(this, other, compare_hashes, order) ==
    CreateDiffs(this, other, << >>, compare_hashes, order).diffs

(***************************************************************************)
(* Names with extensions (pathlib) and the names the executors reserve.    *)
(***************************************************************************)
CONTENT_DIR_NAME == <<"Content">>

PERSISTED_FILE_NAME == <<"BackupSnapshot", "json">>

PENDING_COMMIT_EXTENSION == "__pending_commit__"

PENDING_DELETE_EXTENSION == "__pending_delete__"

\* Path.name
name(p) == p[Len(p)]

\* Path.suffix: the last dot-separated part of the name, if there is one.
suffix(p) == IF Len(name(p)) > 1 THEN name(p)[Len(name(p))] ELSE ""

\* Path.stem
stem(p) == IF Len(name(p)) > 1 THEN SubSeq(name(p), 1, Len(name(p)) - 1) ELSE name(p)

\* Path.with_suffix("")
with_suffix(p) == Parent(p) \o << stem(p) >>

\* path.parent / (path.name + extension)
WithExtension(p, extension) == Parent(p) \o << Append(name(p), extension) >>

\* A faulty variant of TempFilename: the file is streamed to dest_filename
\* itself.
TempFilename_InPlace(dest_filename) == dest_filename

\* WriteFile: dest_filename.parent / "{stem}.__temp__{suffix}"
TempFilename(dest_filename) ==
    Parent(dest_filename)
        \o << stem(dest_filename) \o <<"__temp__">>
                \o (IF suffix(dest_filename) = "" THEN << >> ELSE <<suffix(dest_filename)>>) >>

(***************************************************************************)
(* JSON documents of Node.ToJson.  A document has the keys hash_value and  *)
(* either file_size or children; the missing key is NoSize or the empty    *)
(* mapping here, and a hash_value is a string (t = "string") or the object *)
(* of DirHashPlaceholder.ToJson (t = "object").                            *)
(***************************************************************************)
JsonString(h) == [t |-> "string", s |-> h, explicitly_added |-> FALSE]

JsonPlaceholder(explicitly_added) ==
    [t |-> "object", s |-> 0, explicitly_added |-> explicitly_added]

\* The content of a file that holds no JSON document.
NoJson == [hash_value |-> [t |-> "null", s |-> 0, explicitly_added |-> FALSE],
           file_size |-> NoSize, children |-> << >>]

\* A faulty variant of ToJson: the children of a directory are not written.
ToJson_Flat(T, p) ==
    [hash_value |-> IF is_file(NodeAt(T, p))
                    THEN JsonString(NodeAt(T, p).hash_value.v)
                    ELSE JsonPlaceholder(NodeAt(T, p).hash_value.explicitly_added),
     file_size |-> NodeAt(T, p).file_size,
     children |-> << >>]

RECURSIVE ToJson(_, _)
\* Node.ToJson of the node of T at p.
ToJson(T, p) ==
    LET n == NodeAt(T, p) IN
    IF is_file(n)
    THEN [hash_value |-> JsonString(n.hash_value.v),
          file_size |-> n.file_size,
          children |-> << >>]
    ELSE [hash_value |-> JsonPlaceholder(n.hash_value.explicitly_added),
          file_size |-> NoSize,
          children |-> [c \in ChildNames(T, p) |-> ToJson(T, p \o <<c>>)]]

RECURSIVE JsonPaths(_, _)
\* The paths of the documents nested in value, p being the path of value.
JsonPaths(value, p) ==
    (IF p = << >> THEN {} ELSE {p})
        \cup UNION {JsonPaths(value.children[c], p \o <<c>>) : c \in DOMAIN value.children}

RECURSIVE JsonAt(_, _)
JsonAt(value, p) == IF p = << >> THEN value ELSE JsonAt(value.children[Head(p)], Tail(p))

\* A faulty variant of NodeFromJson: the flag of a placeholder is not read, it
\* is set when the document has no children.
NodeFromJson_DerivedFlag(value) ==
    IF value.hash_value.t = "string"
    THEN Node(StrHash(value.hash_value.s), value.file_size)
    ELSE Node(DirHashPlaceholder(DOMAIN value.children = {}), NoSize)

\* Node.FromJson of one document, children aside.
NodeFromJson(value) ==
    IF value.hash_value.t = "string"
    THEN Node(StrHash(value.hash_value.s), value.file_size)
    ELSE Node(DirHashPlaceholder(value.hash_value.explicitly_added), NoSize)

\* Node.FromJson(None, None, content): the tree under the root document.
FromJson(content) == [p \in JsonPaths(content, << >>) |-> NodeFromJson(JsonAt(content, p))]

(***************************************************************************)
(* A file system: a function from the paths of the items that exist to     *)
(* [type, data, json].  A data file holds a content (data), a snapshot     *)
(* file holds a JSON document (json).                                      *)
(***************************************************************************)
DirItem == [type |-> "Dir", data |-> 0, json |-> NoJson]

FileItem(c) == [type |-> "File", data |-> c, json |-> NoJson]

JsonFileItem(content) == [type |-> "File", data |-> 0, json |-> content]

EmptyFs == << >>

\* Capabilities.GetItemType
GetItemType(fs, p) ==
    IF p = << >> THEN "Dir"
    ELSE IF p \in DOMAIN fs THEN fs[p].type
    ELSE "None"

\* Capabilities.RemoveItem: the item and everything below it.
RemoveItem(fs, p) == [q \in {r \in DOMAIN fs : ~IsPrefix(p, r)} |-> fs[q]]

\* shutil.move(old_path, new_path) when nothing exists at new_path.
Move(fs, old_path, new_path) ==
    LET stay  == {r \in DOMAIN fs : ~IsPrefix(old_path, r)}
        moved == {new_path \o SubSeq(r, Len(old_path) + 1, Len(r)) :
                    r \in {r \in DOMAIN fs : IsPrefix(old_path, r)}}
    IN [q \in stay \cup moved |->
            IF q \in moved
            THEN fs[old_path \o SubSeq(q, Len(new_path) + 1, Len(q))]
            ELSE fs[q]]

\* Capabilities.Rename: whatever is at new_path is removed first.
Rename(fs, old_path, new_path) == Move(RemoveItem(fs, new_path), old_path, new_path)

\* mkdir(parents=True, exist_ok=True) raises when the path or a parent is a file.
CanMakeDirs(fs, p) == \A q \in Prefixes(p) : GetItemType(fs, q) # "File"

\* Capabilities.MakeDirs
MakeDirs(fs, p) ==
    [q \in DOMAIN fs \cup Prefixes(p) |-> IF q \in DOMAIN fs THEN fs[q] ELSE DirItem]

\* Capabilities.Open(filename, "wb") and the writes that follow.
Write(fs, filename, item) ==
    [q \in DOMAIN fs \cup {filename} |-> IF q = filename THEN item ELSE fs[q]]

RECURSIVE SetToSeq(_)
\* The entries of a directory in the order the listing returns them.
SetToSeq(S) ==
    IF S = {} THEN << >>
    ELSE LET x == CHOOSE y \in S : TRUE IN <<x>> \o SetToSeq(S \ {x})

\* The directories and the files os.walk lists for top.
directories(fs, top) ==
    SetToSeq({n \in ChildNames(fs, top) : fs[top \o <<n>>].type = "Dir"})

filenames(fs, top) ==
    SetToSeq({n \in ChildNames(fs, top) : fs[top \o <<n>>].type = "File"})

(***************************************************************************)
(* Building snapshots: Node.AddFile, Node.AddDir, Snapshot.Calculate.      *)
(***************************************************************************)
\* Node._AddImpl: missing intermediate directories are created with
\* explicitly_added=False, the leaf is inserted.
AddImpl(T, path, hash_value, file_size) ==
    [q \in DOMAIN T \cup Prefixes(path) |->
        IF q = path THEN Node(hash_value, file_size)
        ELSE IF q \in DOMAIN T THEN T[q]
        ELSE DirNode(FALSE)]

AddFile(T, path, hash_value, file_size) == AddImpl(T, path, StrHash(hash_value), file_size)

AddDir(T, path) == AddImpl(T, path, DirHashPlaceholder(TRUE), NoSize)

RECURSIVE AddFiles(_, _, _, _)
\* Calculate, "Organizing results": root.AddFile for every file found.
AddFiles(T, fs, found, calculate_hashes) ==
    IF found = << >> THEN T
    ELSE AddFiles(AddFile(T, Head(found),
                          IF calculate_hashes THEN HashOf(fs[Head(found)].data)
                                              ELSE IgnoredHash,
                          SizeOf(fs[Head(found)].data)),
                  fs, Tail(found), calculate_hashes)

RECURSIVE AddDirs(_, _)
\* Calculate, "Organizing results": root.AddDir for every empty directory.
AddDirs(T, empty_dirs) ==
    IF empty_dirs = << >> THEN T
    ELSE AddDirs(AddDir(T, Head(empty_dirs)), Tail(empty_dirs))

\* Snapshot.Calculate over the single input input_item of the file system fs:
\* os.walk collects the files and the directories without entries.
Calculate(fs, input_item, calculate_hashes) ==
    LET under == {p \in DOMAIN fs : IsPrefix(input_item, p)}
        found == {p \in under : fs[p].type = "File"}
        empty_dirs == {p \in under : fs[p].type = "Dir" /\ ChildNames(fs, p) = {}}
    IN AddDirs(AddFiles(EmptyTree, fs, SetToSeq(found), calculate_hashes),
               SetToSeq(empty_dirs))

\* The order in which the children dictionaries of two trees are iterated.
ChildOrder(T, U) ==
    SetToSeq({p[Len(p)] : p \in DOMAIN T \cup DOMAIN U})

(***************************************************************************)
(* Mirror._CleanupImpl.                                                    *)
(***************************************************************************)
\* The body of the loop over one listed item.
CleanupItem(fs, fullpath) ==
    IF suffix(fullpath) = PENDING_COMMIT_EXTENSION
    THEN RemoveItem(fs, fullpath)
    ELSE IF suffix(fullpath) = PENDING_DELETE_EXTENSION
    THEN Rename(fs, fullpath, with_suffix(fullpath))
    ELSE fs

\* A faulty variant of CleanupItems: the loop stops after the first listed item.
CleanupItems_FirstOnly(fs, root, items) ==
    IF items = << >> THEN fs
    ELSE CleanupItem(fs, root \o <<Head(items)>>)

RECURSIVE CleanupItems(_, _, _)
CleanupItems(fs, root, items) ==
    IF items = << >> THEN fs
    ELSE CleanupItems(CleanupItem(fs, root \o <<Head(items)>>), root, Tail(items))

RECURSIVE CleanupWalk(_, _)
RECURSIVE CleanupWalkInto(_, _, _)

\* One directory of capabilities.Walk() with the loop body applied: the
\* directory is listed, every listed item is handled, and the walk then
\* descends into the listed directories that still exist.
CleanupWalk(fs, root) ==
    CleanupWalkInto(
        CleanupItems(fs, root, directories(fs, root) \o filenames(fs, root)),
        root, directories(fs, root))

CleanupWalkInto(fs, root, listed) ==
    IF listed = << >> THEN fs
    ELSE CleanupWalkInto(
            IF GetItemType(fs, root \o <<Head(listed)>>) = "Dir"
            THEN CleanupWalk(fs, root \o <<Head(listed)>>)
            ELSE fs,
            root, Tail(listed))

\* A faulty variant of CleanupImpl: what a previous run left is left.
CleanupImpl_Nothing(fs) == fs

\* _CleanupImpl: nothing is done when Content does not exist, a file named
\* Content is removed, otherwise the working directory is walked.
CleanupImpl(fs) ==
    IF GetItemType(fs, <<CONTENT_DIR_NAME>>) = "None" THEN fs
    ELSE IF GetItemType(fs, <<CONTENT_DIR_NAME>>) = "File"
    THEN RemoveItem(fs, <<CONTENT_DIR_NAME>>)
    ELSE CleanupWalk(fs, << >>)

(***************************************************************************)
(* Mirror.Backup: destination paths and the marking done under force.      *)
(***************************************************************************)
\* CreateDestinationPathNotWindows, resolved against the working directory
\* Content: the leading "/" is dropped, the extension appended to the name.
create_destination_path_func(path, extension) ==
    <<CONTENT_DIR_NAME>> \o WithExtension(path, extension)

\* A faulty variant of pending_snapshot_filename: the snapshot is transferred under
\* its final name.
pending_snapshot_filename_Final == << PERSISTED_FILE_NAME >>

\* Path(Snapshot.PERSISTED_FILE_NAME + PENDING_COMMIT_EXTENSION)
pending_snapshot_filename == << Append(PERSISTED_FILE_NAME, PENDING_COMMIT_EXTENSION) >>

RECURSIVE ForceMarkItems(_, _, _)
\* force: every listed item is renamed to its pending-delete name.
ForceMarkItems(fs, root, items) ==
    IF items = << >> THEN fs
    ELSE ForceMarkItems(
            Rename(fs, root \o <<Head(items)>>,
                   WithExtension(root \o <<Head(items)>>, PENDING_DELETE_EXTENSION)),
            root, Tail(items))

RECURSIVE ForceMarkWalk(_, _)
RECURSIVE ForceMarkWalkInto(_, _, _)

\* force: capabilities.Walk() over Content with the renames applied; the walk
\* descends into the listed directories that still exist under their names.
ForceMarkWalk(fs, root) ==
    ForceMarkWalkInto(
        ForceMarkItems(fs, root, directories(fs, root) \o filenames(fs, root)),
        root, directories(fs, root))

ForceMarkWalkInto(fs, root, listed) ==
    IF listed = << >> THEN fs
    ELSE ForceMarkWalkInto(
            IF GetItemType(fs, root \o <<Head(listed)>>) = "Dir"
            THEN ForceMarkWalk(fs, root \o <<Head(listed)>>)
            ELSE fs,
            root, Tail(listed))

\* The pending-delete names the force walk appends to pending_delete_items.
ForceMarked(fs) ==
    {WithExtension(<<CONTENT_DIR_NAME, n>>, PENDING_DELETE_EXTENSION) :
        n \in ChildNames(fs, <<CONTENT_DIR_NAME>>)}

(***************************************************************************)
(* Mirror.Validate.                                                        *)
(***************************************************************************)
\* A faulty variant of SnapshotFilenameToDestinationName: the working directory is
\* not prepended.
SnapshotFilenameToDestinationName_Relative(path) == path

\* Capabilities.SnapshotFilenameToDestinationName with the working directory
\* set to Content.
SnapshotFilenameToDestinationName(path) == <<CONTENT_DIR_NAME>> \o path

\* Node.Enum: every node below the root.
Enum(T) == SetToSeq(DOMAIN T)

RECURSIVE Remap(_, _, _)
\* Validate: the persisted snapshot converted to destination names.
Remap(new_root, mirrored, nodes) ==
    IF nodes = << >> THEN new_root
    ELSE LET p == Head(nodes)
             destination_path == SnapshotFilenameToDestinationName(p)
         IN Remap(
                IF is_dir(mirrored[p])
                THEN IF ChildNames(mirrored, p) = {}
                     THEN AddDir(new_root, destination_path)
                     ELSE new_root
                ELSE AddFile(new_root, destination_path,
                             mirrored[p].hash_value.v, mirrored[p].file_size),
                mirrored, Tail(nodes))

\* A faulty variant of ValidateDiffs: the hashes are never calculated.
ValidateDiffs_SizesOnly(fs, complete) ==
    LET mirrored_snapshot == FromJson(fs[<<PERSISTED_FILE_NAME>>].json)
        current_snapshot == Calculate(CleanupImpl(fs), <<CONTENT_DIR_NAME>>, FALSE)
        new_root == Remap(EmptyTree, mirrored_snapshot, Enum(mirrored_snapshot))
    IN Diff(current_snapshot, new_root, FALSE, ChildOrder(current_snapshot, new_root))

\* Validate: the differences between what Content holds after the clean up and
\* what the persisted snapshot lists.
ValidateDiffs(fs, complete) ==
    LET mirrored_snapshot == FromJson(fs[<<PERSISTED_FILE_NAME>>].json)
        current_snapshot == Calculate(CleanupImpl(fs), <<CONTENT_DIR_NAME>>, complete)
        new_root == Remap(EmptyTree, mirrored_snapshot, Enum(mirrored_snapshot))
    IN Diff(current_snapshot, new_root, complete, ChildOrder(current_snapshot, new_root))

(***************************************************************************)
(* The mirror executor: Mirror.Backup, Mirror.Cleanup, Mirror.Validate.    *)
(***************************************************************************)
\* The input directory and the paths below it.
input_dir == <<NameA>>

LocalPaths == { <<NameA>>, <<NameA, NameA>>, <<NameA, NameB>>, <<NameA, NameA, NameA>> }

AbsentItem == [type |-> "None", data |-> 0, json |-> NoJson]

LocalItems == {FileItem(c) : c \in Contents} \cup {DirItem}

\* The states of the local file system: the input directory exists, and the
\* parent of every item is a directory.
Sources ==
    {fs \in {[p \in {q \in DOMAIN f : f[q] # AbsentItem} |-> f[p]] :
                f \in [LocalPaths -> LocalItems \cup {AbsentItem}]} :
        /\ GetItemType(fs, input_dir) = "Dir"
        /\ \A p \in DOMAIN fs : GetItemType(fs, Parent(p)) = "Dir"}

NotValidated == [done |-> FALSE, complete |-> FALSE, diffs |-> << >>]

\* GetBytesAvailable returning None (SFTPDataStore).
BytesUnavailable == -1

\* The values GetBytesAvailable returns.
BytesAvailable == {BytesUnavailable, FreeBytes}

\* The input_filenames_or_dirs arguments of Backup: the input directory alone,
\* the input directory with a path below it, the input directory with a path
\* that does not exist.
InputArgs ==
    { <<input_dir>>,
      <<input_dir, <<NameA, NameA>>>>,
      <<input_dir, <<NameA, NameB, NameA>>>> }

\* The destination arguments of Backup: a directory next to the input
\* directory, a directory below the input directory.
DestinationArgs == { <<NameB>>, <<NameA, NameB>> }

\* No Backup has been called.
NotCalled ==
    [result |-> "none", inputs |-> << >>, destination |-> << >>,
     bytes_available |-> BytesUnavailable, bytes_required |-> 0,
     ended |-> "no", after_clean |-> TRUE, rerun |-> FALSE]

\* A call of Backup with its arguments, the figures of the size check and the
\* way it went on.  ended tells how a call that started to write ended ("no"
\* while it runs), after_clean that no run before it was interrupted or saw
\* a task fail, rerun that it repeats, without force, an interrupted run on
\* the same local file system.
BackupCall(result, inputs, destination, bytes_available, bytes_required) ==
    [result |-> result, inputs |-> inputs, destination |-> destination,
     bytes_available |-> bytes_available, bytes_required |-> bytes_required,
     ended |-> IF result = "started" THEN "no" ELSE "returned",
     after_clean |-> clean, rerun |-> FALSE]

\* No change has been made behind the mirror's back.
NotTampered == [op |-> "none", path |-> << >>]

\* No Backup is running, none has been called and nothing has been tampered
\* with.
RunIdle ==
    /\ step = "idle"
    /\ force = FALSE
    /\ diffs = << >>
    /\ todo = {}
    /\ writing = {}
    /\ pending_delete_items = {}
    /\ pending_commit_items = {}
    /\ error = FALSE
    /\ runs = 0
    /\ clean = TRUE
    /\ finalized = 0
    /\ validated = NotValidated
    /\ mRun = NotCalled
    /\ tampered = NotTampered

\* No Backup is running and none has run.
MirrorIdle ==
    /\ local = EmptyFs
    /\ dest = EmptyFs
    /\ RunIdle

\* No outcome of a Restore is at hand.
NotRestored ==
    [done |-> FALSE, error |-> FALSE, target |-> EmptyFs, replayed |-> << >>,
     reported |-> {}, staged |-> FALSE, collected |-> 0,
     before |-> EmptyFs, overwrite |-> FALSE, dry_run |-> FALSE]

\* A snapshot file that does not exist.
NoSnapshot == [present |-> FALSE, json |-> NoJson]

\* The destination holds what the Backup runs transferred, nothing else.
NotDamaged == [op |-> "none", directory |-> 0]

\* No Backup and no Commit has run.
NotRun ==
    [op |-> "none", destination |-> FALSE, force |-> FALSE,
     ignore_pending_snapshot |-> FALSE, result |-> "none", preserved |-> 0]

\* No Cleanup was interrupted.
NotCleaned == [phase |-> "no", before |-> EmptyFs, left |-> EmptyFs]

\* No dated directory is being transferred.
NotTransferring ==
    [phase |-> "idle", files |-> {}, temp |-> {}, pending |-> {}, committed |-> {},
     failed |-> {}, diffs |-> << >>]

\* No offsite Backup has run.
OffsiteIdle ==
    /\ oLocal = EmptyFs
    /\ oSnapshot = NoSnapshot
    /\ oPending = NoSnapshot
    /\ oWorking = << >>
    /\ oStore = << >>
    /\ oProduced = EmptyFs
    /\ oRun = NotRun
    /\ oRestore = NotRestored
    /\ damaged = NotDamaged
    /\ oTransfer = NotTransferring
    /\ oCommit = "idle"
    /\ cleaned = NotCleaned

\* The process of the Backup is gone; what it built in memory is gone with it.
Returned ==
    /\ step' = "idle"
    /\ force' = FALSE
    /\ diffs' = << >>
    /\ todo' = {}
    /\ writing' = {}
    /\ pending_delete_items' = {}
    /\ pending_commit_items' = {}
    /\ error' = FALSE

\* Snapshot.IsPersisted
IsPersisted(fs) == GetItemType(fs, <<PERSISTED_FILE_NAME>>) = "File"

\* Backup: the local snapshot.
local_snapshot(fs) == Calculate(fs, input_dir, TRUE)

\* A faulty variant of mirrored_snapshot: the persisted snapshot is read under
\* force as well.
mirrored_snapshot_Persisted(fs, forced) ==
    IF ~IsPersisted(fs)
    THEN EmptyTree
    ELSE FromJson(fs[<<PERSISTED_FILE_NAME>>].json)

\* Backup: the snapshot the destination is compared with.
mirrored_snapshot(fs, forced) ==
    IF forced \/ ~IsPersisted(fs)
    THEN EmptyTree
    ELSE FromJson(fs[<<PERSISTED_FILE_NAME>>].json)

\* Backup: local_snapshot.Diff(mirrored_snapshot)
BackupDiffs(source, fs, forced) ==
    LET this == local_snapshot(source)
        other == mirrored_snapshot(fs, forced)
    IN Diff(this, other, TRUE, ChildOrder(this, other))

\* The contexts of the Remove tasks and of the Add tasks.
RemoveTasks(ds) == {ds[i].path : i \in DiffsWithOperation(ds, {"modify", "remove"})}

AddTasks(ds) == {ds[i].path : i \in DiffsWithOperation(ds, {"add", "modify"})}

\* Backup: every input exists.
InputsExist(fs, inputs) ==
    \A i \in DOMAIN inputs : GetItemType(fs, inputs[i]) # "None"

\* FileSystemCapabilities.ValidateMirrorInputs: every input is a file or a
\* directory, and the destination is not below the directory of an input.
ValidateMirrorInputs(fs, inputs, destination) ==
    \A i \in DOMAIN inputs :
        /\ GetItemType(fs, inputs[i]) \in {"File", "Dir"}
        /\ ~IsPrefix(IF GetItemType(fs, inputs[i]) = "File"
                     THEN Parent(inputs[i]) ELSE inputs[i],
                     destination)

\* Snapshot.Calculate: an input is below another input.
RootsOverlap(inputs) ==
    \E i, j \in DOMAIN inputs : i # j /\ IsPrefix(inputs[j], inputs[i])

\* A faulty variant of InputsAccepted: only the first input is looked at.
InputsAccepted_FirstOnly(fs, inputs, destination) ==
    GetItemType(fs, Head(inputs)) # "None"

\* Backup goes on to calculate the diffs: no exception was raised for the
\* inputs.
InputsAccepted(fs, inputs, destination) ==
    /\ InputsExist(fs, inputs)
    /\ ValidateMirrorInputs(fs, inputs, destination)
    /\ ~RootsOverlap(inputs)

RECURSIVE bytes_required(_, _)
\* Backup: the sizes of the files among the add and modify diffs, summed.
bytes_required(fs, ds) ==
    IF ds = << >> THEN 0
    ELSE (IF /\ Head(ds).operation \in {"add", "modify"}
             /\ GetItemType(fs, Head(ds).path) = "File"
          THEN SizeOf(fs[Head(ds).path].data)
          ELSE 0) + bytes_required(fs, Tail(ds))

\* A faulty variant of NotEnoughSpace: a request of exactly 85% of the free
\* bytes goes through.
NotEnoughSpace_Strict(available, required) == 85 * available < 100 * required

\* (bytes_available * 0.85) <= bytes_required, in hundredths; the products of
\* the model's figures are exact in floating point as well.
NotEnoughSpace(available, required) == 85 * available <= 100 * required

\* A faulty variant of SizeCheckFails: the Backup goes on whatever the figures.
SizeCheckFails_Never(available, required) == FALSE

\* The size check ends the Backup: it is run when GetBytesAvailable returned
\* a figure.
SizeCheckFails(available, required) ==
    available # BytesUnavailable /\ NotEnoughSpace(available, required)

\* The figure shown as required: nothing is summed when GetBytesAvailable
\* returned None.
RequiredShown(available, fs, ds) ==
    IF available = BytesUnavailable THEN 0 ELSE bytes_required(fs, ds)

\* Backup up to the first write of WriteFile for the snapshot: the inputs are
\* validated and read, the diffs calculated, the size requirements checked,
\* previous content cleaned up, the snapshot persisted and streamed to its
\* temporary name at the destination.
BackupStart ==
    /\ step = "idle"
    /\ runs < MaxRuns
    /\ \E source \in Sources, forced \in BOOLEAN :
        \E ds \in {BackupDiffs(source, dest, forced)} :
        \E required \in {bytes_required(source, ds)} :
           /\ ds # << >>
           /\ \E inputs \in InputArgs, destination \in DestinationArgs,
                 available \in BytesAvailable :
                /\ InputsAccepted(source, inputs, destination)
                /\ ~SizeCheckFails(available, required)
                /\ mRun' = [BackupCall("started", inputs, destination, available,
                                       RequiredShown(available, source, ds))
                             EXCEPT !.rerun = /\ mRun.ended = "interrupted"
                                              /\ mRun.after_clean
                                              /\ source = local
                                              /\ ~forced]
           /\ local' = source
           /\ force' = forced
           /\ diffs' = ds
           /\ dest' = Write(CleanupImpl(dest), TempFilename(pending_snapshot_filename),
                            JsonFileItem(ToJson(local_snapshot(source), << >>)))
    /\ step' = "snapshot"
    /\ runs' = runs + 1
    /\ validated' = NotValidated
    /\ UNCHANGED <<todo, writing, pending_delete_items, pending_commit_items, error,
                   clean>>
    /\ UNCHANGED <<finalized, tampered, diffVars, offsiteVars>>

\* Backup when the diff is empty: it returns before anything is written.
BackupNoDiffs ==
    /\ step = "idle"
    /\ runs < MaxRuns
    /\ \E source \in Sources, forced \in BOOLEAN :
        /\ BackupDiffs(source, dest, forced) = << >>
        /\ \E inputs \in InputArgs, destination \in DestinationArgs :
            /\ InputsAccepted(source, inputs, destination)
            /\ mRun' = BackupCall("no diffs", inputs, destination, BytesUnavailable, 0)
        /\ local' = source
    /\ runs' = runs + 1
    /\ validated' = NotValidated
    /\ UNCHANGED <<dest, runVars, clean>>
    /\ UNCHANGED <<finalized, tampered, diffVars, offsiteVars>>

\* Backup when the size check fails: "There is not enough disk space to
\* process this request." is written and the Backup returns.
BackupNoSpace ==
    /\ step = "idle"
    /\ runs < MaxRuns
    /\ \E source \in Sources, forced \in BOOLEAN :
        \E ds \in {BackupDiffs(source, dest, forced)} :
        \E required \in {bytes_required(source, ds)} :
           /\ ds # << >>
           /\ \E inputs \in InputArgs, destination \in DestinationArgs,
                 available \in BytesAvailable :
                /\ InputsAccepted(source, inputs, destination)
                /\ SizeCheckFails(available, required)
                /\ mRun' = BackupCall("no space", inputs, destination, available,
                                      RequiredShown(available, source, ds))
           /\ local' = source
    /\ runs' = runs + 1
    /\ validated' = NotValidated
    /\ UNCHANGED <<dest, runVars, clean>>
    /\ UNCHANGED <<finalized, tampered, diffVars, offsiteVars>>

\* Backup when an exception is raised for the inputs: a missing input, a
\* destination below an input, an input below another input.
BackupInvalidInput ==
    /\ step = "idle"
    /\ runs < MaxRuns
    /\ \E inputs \in InputArgs, destination \in DestinationArgs :
        /\ ~InputsAccepted(local, inputs, destination)
        /\ mRun' = BackupCall("invalid input", inputs, destination, BytesUnavailable, 0)
    /\ runs' = runs + 1
    /\ validated' = NotValidated
    /\ UNCHANGED <<local, dest, runVars, clean>>
    /\ UNCHANGED <<finalized, tampered, diffVars, offsiteVars>>

\* WriteFile for the snapshot, was_successful: the temporary file is renamed to
\* the pending snapshot.
SnapshotRename ==
    /\ step = "snapshot"
    /\ dest' = Rename(dest, TempFilename(pending_snapshot_filename), pending_snapshot_filename)
    /\ step' = "pending"
    /\ UNCHANGED <<local, force, diffs, todo, writing, pending_delete_items,
                   pending_commit_items, error, runs, clean, validated>>
    /\ UNCHANGED <<finalized, mRun, tampered, diffVars, offsiteVars>>

\* A faulty variant of PhaseAfter: the loop over pending_delete_items is left out.
PhaseAfter_NoDelete(current, ds, commits, deletes) ==
    IF current = "pending" /\ RemoveTasks(ds) # {} THEN "remove"
    ELSE IF current \in {"pending", "remove"} /\ AddTasks(ds) # {} THEN "add"
    ELSE IF current \in {"pending", "remove", "add"} /\ commits # {} THEN "commit"
    ELSE "finalize"

\* The phase that follows the marking, the transfer and the two commit loops.
PhaseAfter(current, ds, commits, deletes) ==
    IF current = "pending" /\ RemoveTasks(ds) # {} THEN "remove"
    ELSE IF current \in {"pending", "remove"} /\ AddTasks(ds) # {} THEN "add"
    ELSE IF current \in {"pending", "remove", "add"} /\ commits # {} THEN "commit"
    ELSE IF current \in {"pending", "remove", "add", "commit"} /\ deletes # {} THEN "delete"
    ELSE "finalize"

\* The tasks handed to ExecuteTasks.Transform in a phase.
PhaseTasks(phase, ds, commits, deletes) ==
    IF phase = "remove" THEN RemoveTasks(ds)
    ELSE IF phase = "add" THEN AddTasks(ds)
    ELSE IF phase = "commit" THEN commits
    ELSE IF phase = "delete" THEN deletes
    ELSE {}

\* Backup from MakeDirs(Content) to the start of the first phase; under force
\* the items of Content are renamed to their pending-delete names.
MakeContent ==
    /\ step = "pending"
    /\ LET made == MakeDirs(dest, <<CONTENT_DIR_NAME>>)
           marked == IF force THEN ForceMarked(made) ELSE {}
       IN /\ dest' = IF force THEN ForceMarkWalk(made, <<CONTENT_DIR_NAME>>) ELSE made
          /\ pending_delete_items' = marked
          /\ step' = PhaseAfter("pending", diffs, {}, marked)
          /\ todo' = PhaseTasks(PhaseAfter("pending", diffs, {}, marked), diffs, {}, marked)
    /\ UNCHANGED <<local, force, diffs, writing, pending_commit_items, error, runs,
                   clean, validated>>
    /\ UNCHANGED <<finalized, mRun, tampered, diffVars, offsiteVars>>

Phases == {"remove", "add", "commit", "delete"}

\* Remove.Execute for the diff at path: the item is renamed to its
\* pending-delete name, or reported as no longer existing.
RemoveTask ==
    /\ step = "remove"
    /\ \E path \in todo :
        LET dest_filename == create_destination_path_func(path, PENDING_DELETE_EXTENSION)
            original_dest_filename == with_suffix(dest_filename)
        IN /\ todo' = todo \ {path}
           /\ IF GetItemType(dest, original_dest_filename) = "None"
              THEN UNCHANGED <<dest, pending_delete_items>>
              ELSE /\ dest' = Rename(dest, original_dest_filename, dest_filename)
                   /\ pending_delete_items' = pending_delete_items \cup {dest_filename}
    /\ UNCHANGED <<local, step, force, diffs, writing, pending_commit_items, error,
                   runs, clean, validated>>
    /\ UNCHANGED <<finalized, mRun, tampered, diffVars, offsiteVars>>

\* Add.Execute for the diff at path, up to a write to the temporary file that
\* is not the last one: a directory is created under its pending-commit name,
\* a file is being streamed to the temporary name next to its pending-commit
\* name and holds a part of its content.
AddTaskWrite ==
    /\ step = "add"
    /\ \E path \in todo :
        LET dest_filename == create_destination_path_func(path, PENDING_COMMIT_EXTENSION)
        IN /\ todo' = todo \ {path}
           /\ IF GetItemType(local, path) = "Dir"
              THEN IF CanMakeDirs(dest, dest_filename)
                   THEN /\ dest' = MakeDirs(dest, dest_filename)
                        /\ pending_commit_items' = pending_commit_items \cup {dest_filename}
                        /\ UNCHANGED <<writing, error, clean>>
                   ELSE /\ error' = TRUE
                        /\ clean' = FALSE
                        /\ UNCHANGED <<dest, pending_commit_items, writing>>
              ELSE IF CanMakeDirs(dest, Parent(dest_filename))
                   THEN /\ dest' = Write(MakeDirs(dest, Parent(dest_filename)),
                                         TempFilename(dest_filename),
                                         FileItem(PartialContent))
                        /\ writing' = writing \cup {path}
                        /\ UNCHANGED <<pending_commit_items, error, clean>>
                   ELSE /\ error' = TRUE
                        /\ clean' = FALSE
                        /\ UNCHANGED <<dest, pending_commit_items, writing>>
    /\ UNCHANGED <<local, step, force, diffs, pending_delete_items, runs, validated>>
    /\ UNCHANGED <<finalized, mRun, tampered, diffVars, offsiteVars>>

\* WriteFile, was_successful: the last chunk is written, the temporary file
\* is renamed to the pending-commit name and the task returns it.
AddTaskRename ==
    /\ step = "add"
    /\ \E path \in writing :
        LET dest_filename == create_destination_path_func(path, PENDING_COMMIT_EXTENSION)
        IN /\ writing' = writing \ {path}
           /\ dest' = Rename(Write(dest, TempFilename(dest_filename),
                                  FileItem(local[path].data)),
                            TempFilename(dest_filename), dest_filename)
           /\ pending_commit_items' = pending_commit_items \cup {dest_filename}
    /\ UNCHANGED <<local, step, force, diffs, todo, pending_delete_items, error, runs,
                   clean, validated>>
    /\ UNCHANGED <<finalized, mRun, tampered, diffVars, offsiteVars>>

\* CommitImpl.Execute with the func of "Committing added content...": the
\* item, if it exists, is renamed to its name without the extension.
CommitItem(fs, fullpath) ==
    IF GetItemType(fs, fullpath) # "None"
    THEN Rename(fs, fullpath, with_suffix(fullpath))
    ELSE fs

\* A faulty variant of DeleteItem: the item under the original name goes as well.
DeleteItem_WithOriginal(fs, fullpath) ==
    RemoveItem(RemoveItem(fs, fullpath), with_suffix(fullpath))

\* CommitImpl.Execute with the func of "Committing removed content...": the
\* item, if it exists, is removed.
DeleteItem(fs, fullpath) ==
    IF GetItemType(fs, fullpath) # "None"
    THEN RemoveItem(fs, fullpath)
    ELSE fs

\* A task of "Committing added content...".
CommitTask ==
    /\ step = "commit"
    /\ \E fullpath \in todo :
        /\ todo' = todo \ {fullpath}
        /\ dest' = CommitItem(dest, fullpath)
    /\ UNCHANGED <<local, step, force, diffs, writing, pending_delete_items,
                   pending_commit_items, error, runs, clean, validated>>
    /\ UNCHANGED <<finalized, mRun, tampered, diffVars, offsiteVars>>

\* A task of "Committing removed content...".
DeleteTask ==
    /\ step = "delete"
    /\ \E fullpath \in todo :
        /\ todo' = todo \ {fullpath}
        /\ dest' = DeleteItem(dest, fullpath)
    /\ UNCHANGED <<local, step, force, diffs, writing, pending_delete_items,
                   pending_commit_items, error, runs, clean, validated>>
    /\ UNCHANGED <<finalized, mRun, tampered, diffVars, offsiteVars>>

\* A task raises: ExecuteTasks.Transform records the error. Whether the tasks
\* that have not started are started is decided by ExecuteTasks, which is not
\* part of these sources: here they run, and a return that leaves them is the
\* step Interrupt takes.
TaskError ==
    /\ step \in Phases
    /\ \E task \in todo \cup writing :
        /\ todo' = todo \ {task}
        /\ writing' = writing \ {task}
    /\ error' = TRUE
    /\ clean' = FALSE
    /\ UNCHANGED <<local, dest, step, force, diffs, pending_delete_items,
                   pending_commit_items, runs, validated>>
    /\ UNCHANGED <<finalized, mRun, tampered, diffVars, offsiteVars>>

\* A faulty variant of TransformReturned: the call returns once every task has
\* started.
TransformReturned_Started == todo = {}

\* ExecuteTasks.Transform returns when every task has run to its end.
TransformReturned == todo = {} /\ writing = {}

\* A phase ends without an error: the Backup goes on with the next phase.
PhaseDone ==
    /\ step \in Phases
    /\ TransformReturned
    /\ ~error
    /\ step' = PhaseAfter(step, diffs, pending_commit_items, pending_delete_items)
    /\ todo' = PhaseTasks(PhaseAfter(step, diffs, pending_commit_items, pending_delete_items),
                          diffs, pending_commit_items, pending_delete_items)
    /\ UNCHANGED <<local, dest, force, diffs, writing, pending_delete_items,
                   pending_commit_items, error, runs, clean, validated>>
    /\ UNCHANGED <<finalized, mRun, tampered, diffVars, offsiteVars>>

\* A phase ends with this_dm.result != 0: the Backup returns.
PhaseFailed ==
    /\ step \in Phases
    /\ TransformReturned
    /\ error
    /\ Returned
    /\ clean' = FALSE
    /\ mRun' = [mRun EXCEPT !.ended = "failed"]
    /\ UNCHANGED <<local, dest, runs, validated>>
    /\ UNCHANGED <<finalized, tampered, diffVars, offsiteVars>>

\* "Committing snapshot data...": the pending snapshot is renamed to
\* BackupSnapshot.json and the Backup returns.
Finalize ==
    /\ step = "finalize"
    /\ dest' = Rename(dest, pending_snapshot_filename, with_suffix(pending_snapshot_filename))
    /\ Returned
    /\ UNCHANGED <<local, runs, clean, validated>>
    /\ finalized' = finalized + 1
    /\ mRun' = [mRun EXCEPT !.ended = "done"]
    /\ UNCHANGED <<tampered, diffVars, offsiteVars>>

\* The Backup is interrupted: the process ends where it stands.
Interrupt ==
    /\ step # "idle"
    /\ Returned
    /\ clean' = FALSE
    /\ mRun' = [mRun EXCEPT !.ended = "interrupted"]
    /\ UNCHANGED <<local, dest, runs, validated>>
    /\ UNCHANGED <<finalized, tampered, diffVars, offsiteVars>>

\* Mirror.Cleanup
Cleanup ==
    /\ step = "idle"
    /\ dest' = CleanupImpl(dest)
    /\ validated' = NotValidated
    /\ UNCHANGED <<local, runVars, runs, clean>>
    /\ UNCHANGED <<finalized, mRun, tampered, diffVars, offsiteVars>>

\* Mirror.Validate in standard mode (complete = FALSE) or complete mode.
Validate ==
    /\ step = "idle"
    /\ IsPersisted(dest)
    /\ GetItemType(dest, <<CONTENT_DIR_NAME>>) = "Dir"
    /\ \E complete \in BOOLEAN :
        validated' = [done |-> TRUE, complete |-> complete,
                      diffs |-> ValidateDiffs(dest, complete)]
    /\ dest' = CleanupImpl(dest)
    /\ UNCHANGED <<local, runVars, runs, clean>>
    /\ UNCHANGED <<finalized, mRun, tampered, diffVars, offsiteVars>>

MirrorInit ==
    /\ MirrorIdle
    /\ OffsiteIdle
    /\ dThis = EmptyTree
    /\ dOther = EmptyTree
    /\ dOrder = <<NameA, NameB>>
    /\ dPhase = "init"
    /\ dDiffs = << >>
    /\ dJson = NoJson

MirrorNext ==
    \/ BackupStart
    \/ BackupNoDiffs
    \/ BackupNoSpace
    \/ BackupInvalidInput
    \/ SnapshotRename
    \/ MakeContent
    \/ RemoveTask
    \/ AddTaskWrite
    \/ AddTaskRename
    \/ CommitTask
    \/ DeleteTask
    \/ TaskError
    \/ PhaseDone
    \/ PhaseFailed
    \/ Finalize
    \/ Interrupt
    \/ Cleanup
    \/ Validate

Spec == MirrorInit /\ [][MirrorNext]_vars

(***************************************************************************)
(* SpecTamper: a destination that mirrors the local file system is changed *)
(* behind the mirror's back, then backed up into and validated; no run is  *)
(* interrupted and no task fails.                                          *)
(***************************************************************************)
\* The destination after a Backup of the local file system fs that ran to its
\* end: BackupSnapshot.json holding the snapshot of fs, and Content holding
\* the items of fs.
MirrorOf(fs) ==
    [p \in {<<PERSISTED_FILE_NAME>>, <<CONTENT_DIR_NAME>>}
            \cup {<<CONTENT_DIR_NAME>> \o q : q \in DOMAIN fs} |->
        IF p = <<PERSISTED_FILE_NAME>>
        THEN JsonFileItem(ToJson(local_snapshot(fs), << >>))
        ELSE IF p = <<CONTENT_DIR_NAME>> THEN DirItem
        ELSE fs[Tail(p)]]

\* The files below Content.
MirroredFiles(fs) ==
    {p \in DOMAIN fs : IsPrefix(<<CONTENT_DIR_NAME>>, p) /\ fs[p].type = "File"}

\* A content of the same length that holds other bytes.
SameSizeContent(c) == c + NumContents

\* A file below Content is deleted behind the mirror's back.
DeleteOutOfBand ==
    /\ step = "idle"
    /\ tampered = NotTampered
    /\ \E p \in MirroredFiles(dest) :
        /\ dest' = RemoveItem(dest, p)
        /\ tampered' = [op |-> "delete", path |-> p]
    /\ validated' = NotValidated
    /\ UNCHANGED <<local, runVars, runs, clean, finalized, mRun>>
    /\ UNCHANGED <<diffVars, offsiteVars>>

\* A file below Content is rewritten behind the mirror's back with other
\* bytes of the same length.
RewriteOutOfBand ==
    /\ step = "idle"
    /\ tampered = NotTampered
    /\ \E p \in MirroredFiles(dest) :
        /\ dest' = Write(dest, p, FileItem(SameSizeContent(dest[p].data)))
        /\ tampered' = [op |-> "rewrite", path |-> p]
    /\ validated' = NotValidated
    /\ UNCHANGED <<local, runVars, runs, clean, finalized, mRun>>
    /\ UNCHANGED <<diffVars, offsiteVars>>

\* The local file systems that have been mirrored: those with two files.
TamperSources ==
    {fs \in Sources : Cardinality({p \in DOMAIN fs : fs[p].type = "File"}) = 2}

TamperInit ==
    /\ local \in TamperSources
    /\ dest = MirrorOf(local)
    /\ RunIdle
    /\ OffsiteIdle
    /\ dThis = EmptyTree
    /\ dOther = EmptyTree
    /\ dOrder = <<NameA, NameB>>
    /\ dPhase = "init"
    /\ dDiffs = << >>
    /\ dJson = NoJson

TamperNext ==
    \/ DeleteOutOfBand
    \/ RewriteOutOfBand
    \/ BackupStart
    \/ BackupNoDiffs
    \/ SnapshotRename
    \/ MakeContent
    \/ RemoveTask
    \/ AddTaskWrite
    \/ AddTaskRename
    \/ CommitTask
    \/ DeleteTask
    \/ PhaseDone
    \/ Finalize
    \/ Validate

SpecTamper == TamperInit /\ [][TamperNext]_vars

(***************************************************************************)
(* SpecRerun: a Backup into an empty destination or into one that mirrors  *)
(* the local file system is interrupted anywhere, and a Backup is run      *)
(* again; no task fails.                                                   *)
(***************************************************************************)
\* The mirrored local file systems the first run starts from: a file below a
\* directory and a file next to it.
RerunSources ==
    {fs \in TamperSources :
        /\ <<NameA, NameA, NameA>> \in DOMAIN fs
        /\ fs[<<NameA, NameB>>] = FileItem(1)}

RerunInit == MirrorInit \/ (TamperInit /\ local \in RerunSources)

RerunNext ==
    \/ BackupStart
    \/ SnapshotRename
    \/ MakeContent
    \/ RemoveTask
    \/ AddTaskWrite
    \/ AddTaskRename
    \/ CommitTask
    \/ DeleteTask
    \/ PhaseDone
    \/ Finalize
    \/ Interrupt

SpecRerun == RerunInit /\ [][RerunNext]_vars

(***************************************************************************)
(* SpecDiff: the diff engine applied to every pair of snapshots over a     *)
(* small set of paths.                                                     *)
(***************************************************************************)
DiffPaths == { <<NameA>>, <<NameA, NameA>>, <<NameA, NameB>>, <<NameA, NameA, NameA>> }

\* The node Calculate(calculate_hashes=False) builds for a file of content c.
HashlessNode(c) == Node(StrHash(IgnoredHash), SizeOf(c))

NodeValues ==
    {FileNode(c) : c \in Contents} \cup {HashlessNode(c) : c \in Contents}
        \cup {DirNode(TRUE), DirNode(FALSE)}

\* A snapshot is calculated with hashes or without: its files all carry a
\* digest or all carry "ignored".
Hashed(T) == \A p \in DOMAIN T : is_file(T[p]) => T[p].hash_value.v # IgnoredHash

Hashless(T) == \A p \in DOMAIN T : is_file(T[p]) => T[p].hash_value.v = IgnoredHash

\* The mark of a path that holds no node.
AbsentNode == Node(None, NoSize)

\* Restriction of f to the paths it maps to a node.
Present(f) == [p \in {q \in DOMAIN f : f[q] # AbsentNode} |-> f[p]]

\* Every tree over DiffPaths that Node.Create, AddFile, AddDir and the public
\* children dictionaries can build.
DiffTrees ==
    {T \in {Present(f) : f \in [DiffPaths -> NodeValues \cup {AbsentNode}]} :
        WellFormed(T) /\ (Hashed(T) \/ Hashless(T))}

DiffInit ==
    /\ MirrorIdle
    /\ OffsiteIdle
    /\ dThis \in DiffTrees
    /\ dOther \in DiffTrees
    /\ dOrder \in Orders
    /\ dPhase = "init"
    /\ dDiffs = << >>
    /\ dJson = NoJson

\* list(this.Diff(other))
DiffHashes ==
    /\ dPhase = "init"
    /\ dPhase' = "hashes"
    /\ dDiffs' = Diff(dThis, dOther, TRUE, dOrder)
    /\ UNCHANGED <<dThis, dOther, dOrder, dJson, mirrorVars, offsiteVars>>

\* list(this.Diff(other, compare_hashes=False))
DiffSizes ==
    /\ dPhase = "init"
    /\ dPhase' = "sizes"
    /\ dDiffs' = Diff(dThis, dOther, FALSE, dOrder)
    /\ UNCHANGED <<dThis, dOther, dOrder, dJson, mirrorVars, offsiteVars>>

DiffNext == DiffHashes \/ DiffSizes

SpecDiff == DiffInit /\ [][DiffNext]_vars

(***************************************************************************)
(* SpecPersist: every snapshot over the same paths is persisted and loaded *)
(* again.                                                                  *)
(***************************************************************************)
PersistInit ==
    /\ MirrorIdle
    /\ OffsiteIdle
    /\ dThis \in DiffTrees
    /\ dOther = EmptyTree
    /\ dOrder = <<NameA, NameB>>
    /\ dPhase = "init"
    /\ dDiffs = << >>
    /\ dJson = NoJson

\* Snapshot.Persist: json.dump(self.node.ToJson(), f)
Persist ==
    /\ dPhase = "init"
    /\ dPhase' = "persisted"
    /\ dJson' = ToJson(dThis, << >>)
    /\ UNCHANGED <<dThis, dOther, dOrder, dDiffs, mirrorVars, offsiteVars>>

\* Snapshot.LoadPersisted: Snapshot(Snapshot.Node.FromJson(None, None, content))
LoadPersisted ==
    /\ dPhase = "persisted"
    /\ dPhase' = "loaded"
    /\ dOther' = FromJson(dJson)
    /\ UNCHANGED <<dThis, dOrder, dDiffs, dJson, mirrorVars, offsiteVars>>

PersistNext == Persist \/ LoadPersisted

SpecPersist == PersistInit /\ [][PersistNext]_vars

(***************************************************************************)
(* The offsite executor: Offsite.Backup into a file-based destination and  *)
(* Offsite.Restore.  A dated directory at the destination is               *)
(* [primary, pool, index]: primary is the absence of the ".delta" suffix,  *)
(* pool maps the hash a preserved file is named after to its content,      *)
(* index is the content of index.json.                                     *)
(***************************************************************************)
\* "a" < "b"
NameBefore(m, n) == m = NameA /\ n = NameB

RECURSIVE PathBefore(_, _)
\* str(p) < str(q): "/" sorts before every letter, so a path sorts before the
\* paths below it.
PathBefore(p, q) ==
    IF q = << >> THEN FALSE
    ELSE IF p = << >> THEN TRUE
    ELSE IF Head(p) = Head(q) THEN PathBefore(Tail(p), Tail(q))
    ELSE NameBefore(Head(p), Head(q))

RECURSIVE SortByPath(_)
\* these_diffs.sort(key=lambda value: str(value.path))
SortByPath(ds) ==
    IF ds = << >> THEN << >>
    ELSE LET i == CHOOSE i \in 1 .. Len(ds) :
                    /\ \A j \in 1 .. Len(ds) : ~PathBefore(ds[j].path, ds[i].path)
                    /\ \A j \in 1 .. (i - 1) : PathBefore(ds[i].path, ds[j].path)
         IN <<ds[i]>> \o SortByPath(SubSeq(ds, 1, i - 1) \o SubSeq(ds, i + 1, Len(ds)))

\* Common.CalculateDiffs: the diffs grouped by operation, the groups in the
\* order remove, add, modify.
CalculateDiffs(ds, operation) == SelectSeq(ds, LAMBDA d : d.operation = operation)

\* Common.DiffResult.ToJson: a hash and its size are written only when the
\* hash is a string.
DiffToJson(d) ==
    [operation |-> d.operation, path |-> d.path,
     this_hash |-> IF d.this_hash.k = "str" THEN d.this_hash ELSE None,
     this_file_size |-> IF d.this_hash.k = "str" THEN d.this_file_size ELSE NoSize,
     other_hash |-> IF d.other_hash.k = "str" THEN d.other_hash ELSE None,
     other_file_size |-> IF d.other_hash.k = "str" THEN d.other_file_size ELSE NoSize]

\* Backup, "Preserving index...": json_diffs.
IndexOf(ds) ==
    LET sorted == SortByPath(CalculateDiffs(ds, "remove"))
                    \o SortByPath(CalculateDiffs(ds, "add"))
                    \o SortByPath(CalculateDiffs(ds, "modify"))
    IN [i \in 1 .. Len(sorted) |-> DiffToJson(sorted[i])]

\* A faulty variant of PendingBlocks: the pending snapshot file is not looked
\* for.
PendingBlocks_Never(pending, ignore_pending_snapshot) == FALSE

\* Backup, "if snapshot_filenames.pending.is_file(): if not
\* ignore_pending_snapshot": the run ends with the pending-snapshot error.
PendingBlocks(pending, ignore_pending_snapshot) ==
    pending.present /\ ~ignore_pending_snapshot

\* Backup, "elif ignore_pending_snapshot": there is no pending snapshot to
\* ignore and the run ends with an error.
PendingNotFound(pending, ignore_pending_snapshot) ==
    ~pending.present /\ ignore_pending_snapshot

\* A faulty variant of Forced: the force argument is not read.
Forced_StandardOnly(force_arg, snapshot) == ~snapshot.present

\* Backup, "if force or not snapshot_filenames.standard.is_file(): force =
\* True".
Forced(force_arg, snapshot) == force_arg \/ ~snapshot.present

\* Backup: the snapshot the local snapshot is compared with.
offsite_snapshot(snapshot, forced) ==
    IF Forced(forced, snapshot) THEN EmptyTree ELSE FromJson(snapshot.json)

\* A faulty variant of offsite_file_lookup: the offsite snapshot is not read.
offsite_file_lookup_Empty(T) == {}

\* Backup: the hashes of the files of the offsite snapshot.
offsite_file_lookup(T) == {T[p].hash_value.v : p \in {q \in DOMAIN T : is_file(T[q])}}

RECURSIVE diffs_to_process(_, _, _)
\* Backup, diffs_to_process: the adds and modifies of files whose hash is not
\* in the lookup; the hash of each one taken joins the lookup.
diffs_to_process(fs, ds, lookup) ==
    IF ds = << >> THEN << >>
    ELSE IF GetItemType(fs, Head(ds).path) # "File" \/ Head(ds).this_hash.v \in lookup
    THEN diffs_to_process(fs, Tail(ds), lookup)
    ELSE <<Head(ds)>>
            \o diffs_to_process(fs, Tail(ds), lookup \cup {Head(ds).this_hash.v})

RECURSIVE PreserveFiles(_, _, _)
\* Backup, "Preserving files...": every diff to process is copied to the pool
\* under its hash.
PreserveFiles(fs, ds, pool) ==
    IF ds = << >> THEN pool
    ELSE PreserveFiles(fs, Tail(ds),
                       Write(pool, Head(ds).this_hash.v, fs[Head(ds).path].data))

\* Backup: local_snapshot.Diff(offsite_snapshot)
OffsiteDiffs(source, snapshot, forced) ==
    LET this == local_snapshot(source)
        other == offsite_snapshot(snapshot, forced)
    IN Diff(this, other, TRUE, ChildOrder(this, other))

\* Backup: the files the run preserves.
to_preserve(source, snapshot, forced) ==
    LET ds == OffsiteDiffs(source, snapshot, forced) IN
    diffs_to_process(source,
                     CalculateDiffs(ds, "add") \o CalculateDiffs(ds, "modify"),
                     offsite_file_lookup(offsite_snapshot(snapshot, forced)))

\* Common.CalculateHash of an index.json: the digest stands for the content
\* it was calculated of.
IndexHash(index) == <<"sha512", index>>

\* Backup: the dated directory produced in the working directory.  Its name
\* is a dated one (recognized), with the suffix .delta unless primary;
\* index.json.hash holds the hash of index.json.
file_content_root(source, snapshot, forced) ==
    LET index == IndexOf(OffsiteDiffs(source, snapshot, forced)) IN
    [recognized |-> TRUE,
     primary |-> Forced(forced, snapshot),
     pool |-> PreserveFiles(source, to_preserve(source, snapshot, forced), << >>),
     index |-> index,
     index_hash |-> IndexHash(index)]

\* Restore.Instruction: file_content_path is the hash the staged file is named
\* after, None for a directory and for a remove.
Instruction(operation, file_content_path, local_filename) ==
    [operation |-> operation, file_content_path |-> file_content_path,
     local_filename |-> local_filename]

RECURSIVE ReadInstructions_Unchecked(_, _, _)
\* A faulty variant of ReadInstructions: the other_hash of a modify is not
\* looked for among the hashes read so far.
ReadInstructions_Unchecked(json_content, file_hashes, these_instructions) ==
    IF json_content = << >>
    THEN [error |-> FALSE, file_hashes |-> file_hashes, instructions |-> these_instructions]
    ELSE LET item == Head(json_content) IN
         IF item.operation = "add"
         THEN ReadInstructions_Unchecked(Tail(json_content),
                IF item.this_hash = None THEN file_hashes
                ELSE file_hashes \cup {item.this_hash.v},
                Append(these_instructions,
                       Instruction("add", item.this_hash, item.path)))
         ELSE IF item.operation = "modify"
         THEN ReadInstructions_Unchecked(Tail(json_content),
                file_hashes \cup {item.this_hash.v},
                Append(these_instructions,
                       Instruction("modify", item.this_hash, item.path)))
         ELSE IF item.other_hash # None /\ item.other_hash.v \notin file_hashes
              THEN [error |-> TRUE, file_hashes |-> file_hashes,
                    instructions |-> these_instructions]
              ELSE ReadInstructions_Unchecked(Tail(json_content), file_hashes,
                     Append(these_instructions,
                            Instruction("remove", None, item.path)))

RECURSIVE ReadInstructions(_, _, _)
\* Restore, "Read the instructions": the items of one index.json.  A modify or
\* a remove of a file whose other_hash was never added raises.
ReadInstructions(json_content, file_hashes, these_instructions) ==
    IF json_content = << >>
    THEN [error |-> FALSE, file_hashes |-> file_hashes, instructions |-> these_instructions]
    ELSE LET item == Head(json_content) IN
         IF item.operation = "add"
         THEN ReadInstructions(Tail(json_content),
                IF item.this_hash = None THEN file_hashes
                ELSE file_hashes \cup {item.this_hash.v},
                Append(these_instructions,
                       Instruction("add", item.this_hash, item.path)))
         ELSE IF item.operation = "modify"
         THEN IF item.other_hash.v \notin file_hashes
              THEN [error |-> TRUE, file_hashes |-> file_hashes,
                    instructions |-> these_instructions]
              ELSE ReadInstructions(Tail(json_content),
                     file_hashes \cup {item.this_hash.v},
                     Append(these_instructions,
                            Instruction("modify", item.this_hash, item.path)))
         ELSE IF item.other_hash # None /\ item.other_hash.v \notin file_hashes
              THEN [error |-> TRUE, file_hashes |-> file_hashes,
                    instructions |-> these_instructions]
              ELSE ReadInstructions(Tail(json_content), file_hashes,
                     Append(these_instructions,
                            Instruction("remove", None, item.path)))

RECURSIVE StageContent(_, _, _, _)
\* Restore, "Staging working content...": directory by directory, every pool
\* file is linked into the staging directory under its own name (os.symlink
\* raises when the name is taken), then the index is read.
StageContent(dirs, staged, file_hashes, instructions) ==
    IF dirs = << >>
    THEN [error |-> FALSE, staged |-> staged, instructions |-> instructions]
    ELSE IF DOMAIN Head(dirs).pool \cap DOMAIN staged # {}
    THEN [error |-> TRUE, staged |-> staged, instructions |-> instructions]
    ELSE LET linked == [h \in DOMAIN staged \cup DOMAIN Head(dirs).pool |->
                            IF h \in DOMAIN staged THEN staged[h] ELSE Head(dirs).pool[h]]
             read == ReadInstructions(Head(dirs).index, file_hashes, << >>)
         IN IF read.error
            THEN [error |-> TRUE, staged |-> linked, instructions |-> instructions]
            ELSE StageContent(Tail(dirs), linked, read.file_hashes,
                              instructions \o read.instructions)

\* Restore.WriteImpl.CommitDir
CommitDir(fs, local_filename) ==
    LET cleared == IF GetItemType(fs, local_filename) = "File"
                   THEN RemoveItem(fs, local_filename) ELSE fs
    IN IF CanMakeDirs(cleared, local_filename)
       THEN [error |-> FALSE, fs |-> MakeDirs(cleared, local_filename)]
       ELSE [error |-> TRUE, fs |-> cleared]

\* Restore.WriteImpl.CommitFile
CommitFile(fs, local_filename, c) ==
    LET cleared == RemoveItem(fs, local_filename) IN
    IF CanMakeDirs(cleared, Parent(local_filename))
    THEN [error |-> FALSE,
          fs |-> Write(MakeDirs(cleared, Parent(local_filename)), local_filename,
                       FileItem(c))]
    ELSE [error |-> TRUE, fs |-> cleared]

\* The commit action WriteItem, UpdateFile or RemoveItem appends for one
\* instruction; the content of a file was read from the staging directory
\* when the action was created.
commit_action(fs, instruction, staged) ==
    IF instruction.operation = "remove"
    THEN [error |-> FALSE, fs |-> RemoveItem(fs, instruction.local_filename)]
    ELSE IF instruction.file_content_path = None
    THEN CommitDir(fs, instruction.local_filename)
    ELSE CommitFile(fs, instruction.local_filename,
                    staged[instruction.file_content_path.v])

RECURSIVE CommitContent(_, _, _)
\* Restore, "Committing content...": the commit actions run in order; an
\* exception ends the run.
CommitContent(fs, instructions, staged) ==
    IF instructions = << >> THEN [error |-> FALSE, fs |-> fs]
    ELSE LET r == commit_action(fs, Head(instructions), staged) IN
         IF r.error THEN r
         ELSE CommitContent(r.fs, Tail(instructions), staged)

\* A faulty variant of Accepted: an add is never refused.
Accepted_All(fs, instructions, overwrite) == instructions

RECURSIVE Accepted(_, _, _)
\* Restore, "Processing instructions...": an add whose local item exists is
\* refused without overwrite and ends the loop; the actions collected so far
\* are committed.
Accepted(fs, instructions, overwrite) ==
    IF instructions = << >> THEN << >>
    ELSE IF /\ Head(instructions).operation = "add"
            /\ GetItemType(fs, Head(instructions).local_filename) # "None"
            /\ ~overwrite
    THEN << >>
    ELSE <<Head(instructions)>> \o Accepted(fs, Tail(instructions), overwrite)

\* The indexes of the primary directories among the directories found.
primary_indexes(store) == {i \in 1 .. Len(store) : store[i].primary}

\* A faulty variant of replay_directories: every directory found is replayed.
replay_directories_All(store) == [i \in 1 .. Len(store) |-> i]

\* Restore: all_directories[primary_indexes[-1]:], as indexes of the store.
replay_directories(store) ==
    LET last == CHOOSE i \in primary_indexes(store) :
                    \A j \in primary_indexes(store) : j <= i
    IN [i \in 1 .. (Len(store) - last + 1) |-> last + i - 1]

\* A faulty variant of VerifyRestoredFiles: the files of the pool are not
\* hashed.
VerifyRestoredFiles_IndexOnly(directory) ==
    IndexHash(directory.index) = directory.index_hash

\* _VerifyRestoredFiles: the hash of index.json is the one in index.json.hash
\* and the hash of every other file is its name; it raises otherwise.
VerifyRestoredFiles(directory) ==
    /\ IndexHash(directory.index) = directory.index_hash
    /\ \A h \in DOMAIN directory.pool : HashOf(directory.pool[h]) = h

\* The outcome of a Restore that returned or raised within "Processing file
\* content...": no instruction was processed, no commit action was run.
RestoreAborted(fs, replayed) ==
    [done |-> TRUE, error |-> TRUE, target |-> fs, replayed |-> replayed,
     reported |-> {}, staged |-> FALSE, collected |-> 0]

\* Offsite.Restore of the directories of store onto the file system fs.  The
\* instructions are processed unless dry_run; the commit actions collected
\* are run.  staged tells that "Processing instructions..." was entered,
\* collected is the number of commit actions collected there.
Restore(store, fs, overwrite, dry_run) ==
    IF \E i \in 1 .. Len(store) : ~store[i].recognized
    THEN RestoreAborted(fs, << >>)
    ELSE IF Cardinality(primary_indexes(store)) # 1
    THEN RestoreAborted(fs, << >>)
    ELSE IF \E i \in 1 .. Len(replay_directories(store)) :
                ~VerifyRestoredFiles(store[replay_directories(store)[i]])
    THEN RestoreAborted(fs, replay_directories(store))
    ELSE LET replay == replay_directories(store)
             stage == StageContent([i \in 1 .. Len(replay) |-> store[replay[i]]],
                                   << >>, {}, << >>)
             accepted == IF dry_run THEN << >>
                         ELSE Accepted(fs, stage.instructions, overwrite)
             refused == ~dry_run /\ Len(accepted) # Len(stage.instructions)
         IN IF stage.error
               \/ \E i \in 1 .. Len(accepted) :
                    /\ accepted[i].file_content_path # None
                    /\ accepted[i].file_content_path.v \notin DOMAIN stage.staged
            THEN RestoreAborted(fs, replay)
            ELSE LET r == CommitContent(fs, accepted, stage.staged) IN
                 [done |-> TRUE,
                  error |-> r.error \/ refused,
                  target |-> r.fs,
                  replayed |-> replay,
                  reported |-> IF refused
                               THEN {stage.instructions[Len(accepted) + 1].local_filename}
                               ELSE {},
                  staged |-> TRUE,
                  collected |-> Len(accepted)]

\* The local file systems the offsite runs are made on: a/b is absent, a file
\* of any content or an empty directory, a/a is absent or the file of content
\* 1.
OffsiteSources ==
    {fs \in Sources :
        <<NameA, NameA>> \in DOMAIN fs => fs[<<NameA, NameA>>] = FileItem(1)}

\* The file systems a Restore writes to: an empty one, and those that hold
\* the file a/b already, with or without the file a/a.
RestoreTargets ==
    {EmptyFs} \cup
    {fs \in Sources :
        /\ <<NameA, NameB>> \in DOMAIN fs
        /\ \A p \in DOMAIN fs \ {input_dir} : fs[p] = FileItem(NumContents)}

\* A faulty variant of PersistedAs: the snapshot is committed locally whether
\* or not there is a destination.
PersistedAs_Standard(destination) == "standard"

\* Backup: the snapshot file the local snapshot is persisted as, the pending
\* one "if not destination", the standard one after the transfer.
PersistedAs(destination) == IF destination THEN "standard" ELSE "pending"

\* local_snapshot.Persist: the snapshot file of the local file system.
Persisted(source) == [present |-> TRUE, json |-> ToJson(local_snapshot(source), << >>)]

\* The arguments and the outcome of a Backup run; preserved is the number of
\* files the run copied to the pool.
BackupRun(destination, force_arg, ignore_pending_snapshot, result, preserved) ==
    [op |-> "Backup", destination |-> destination, force |-> force_arg,
     ignore_pending_snapshot |-> ignore_pending_snapshot, result |-> result,
     preserved |-> preserved]

\* The runs the model follows: MaxBackups dated directories, MaxPending of
\* them without a destination, none after a Restore (a Restore reads the
\* destination and writes to its own target only) and none after the
\* destination was changed behind the backup's back.
MoreRuns ==
    /\ Len(oStore) + Len(oWorking) < MaxBackups
    /\ ~oRestore.done
    /\ damaged = NotDamaged
    /\ oCommit = "idle"
    /\ oTransfer.phase = "idle"

\* Offsite.Backup while a pending snapshot exists and ignore_pending_snapshot
\* is not set: the error is written and the run returns.
OffsiteBackupBlocked ==
    /\ MoreRuns
    /\ \E destination \in BOOLEAN, force_arg \in BOOLEAN :
        /\ PendingBlocks(oPending, FALSE)
        /\ oRun' = BackupRun(destination, force_arg, FALSE, "blocked", 0)
    /\ UNCHANGED <<oLocal, oSnapshot, oPending, oWorking, oStore, oProduced, oRestore>>
    /\ UNCHANGED <<damaged, stepVars, diffVars, mirrorVars>>

\* Offsite.Backup with ignore_pending_snapshot when no pending snapshot
\* exists: the error is written and the run returns.
OffsiteBackupNotFound ==
    /\ MoreRuns
    /\ \E destination \in BOOLEAN, force_arg \in BOOLEAN :
        /\ PendingNotFound(oPending, TRUE)
        /\ oRun' = BackupRun(destination, force_arg, TRUE, "not found", 0)
    /\ UNCHANGED <<oLocal, oSnapshot, oPending, oWorking, oStore, oProduced, oRestore>>
    /\ UNCHANGED <<damaged, stepVars, diffVars, mirrorVars>>

\* Offsite.Backup for a local file system with differences (called with
\* commit_pending_snapshot at its default, as the command line does).  A
\* pending snapshot that is ignored is removed first.  The dated directory is
\* produced in the working directory; with a destination it is transferred
\* and removed from the working directory and the snapshot is committed
\* locally, without one it stays and the snapshot is persisted as pending.
OffsiteBackup ==
    /\ MoreRuns
    /\ \E source \in OffsiteSources, force_arg \in BOOLEAN :
        /\ OffsiteDiffs(source, oSnapshot, force_arg) # << >>
        /\ \E root \in {file_content_root(source, oSnapshot, force_arg)},
              preserved \in {Len(to_preserve(source, oSnapshot, force_arg))},
              persisted \in {Persisted(source)},
              destination \in BOOLEAN, ignore_pending_snapshot \in BOOLEAN :
            /\ ~PendingBlocks(oPending, ignore_pending_snapshot)
            /\ ~PendingNotFound(oPending, ignore_pending_snapshot)
            /\ destination \/ Len(oWorking) < MaxPending
            /\ oLocal' = source
            /\ oRun' = BackupRun(destination, force_arg, ignore_pending_snapshot, "ok",
                               preserved)
            /\ IF destination
               THEN /\ oStore' = Append(oStore, root)
                    /\ oProduced' = source
                    /\ UNCHANGED oWorking
               ELSE /\ oWorking' = Append(oWorking, root)
                    /\ UNCHANGED <<oStore, oProduced>>
            /\ oSnapshot' = IF PersistedAs(destination) = "standard"
                            THEN persisted ELSE oSnapshot
            /\ oPending' = IF PersistedAs(destination) = "pending"
                           THEN persisted ELSE NoSnapshot
    /\ UNCHANGED oRestore
    /\ UNCHANGED <<damaged, stepVars, diffVars, mirrorVars>>

\* Offsite.Backup when the diff is empty: it returns before anything is
\* written.  A pending snapshot that is ignored was removed before.
OffsiteBackupNoDiffs ==
    /\ MoreRuns
    /\ \E source \in OffsiteSources, destination \in BOOLEAN, force_arg \in BOOLEAN,
          ignore_pending_snapshot \in BOOLEAN :
        /\ ~PendingBlocks(oPending, ignore_pending_snapshot)
        /\ ~PendingNotFound(oPending, ignore_pending_snapshot)
        /\ OffsiteDiffs(source, oSnapshot, force_arg) = << >>
        /\ oLocal' = source
        /\ oRun' = BackupRun(destination, force_arg, ignore_pending_snapshot, "no diffs", 0)
    /\ oPending' = NoSnapshot
    /\ UNCHANGED <<oSnapshot, oWorking, oStore, oProduced, oRestore>>
    /\ UNCHANGED <<damaged, stepVars, diffVars, mirrorVars>>

\* Offsite.Commit: the pending snapshot replaces the standard snapshot; an
\* error when there is none.
OffsiteCommit ==
    /\ MoreRuns
    /\ IF oPending.present
       THEN /\ oSnapshot' = oPending
            /\ oPending' = NoSnapshot
            /\ oRun' = [NotRun EXCEPT !.op = "Commit", !.result = "ok"]
       ELSE /\ oRun' = [NotRun EXCEPT !.op = "Commit", !.result = "not found"]
            /\ UNCHANGED <<oSnapshot, oPending>>
    /\ UNCHANGED <<oLocal, oWorking, oStore, oProduced, oRestore>>
    /\ UNCHANGED <<damaged, stepVars, diffVars, mirrorVars>>

\* Offsite.Restore of the destination onto a target.
OffsiteRestore ==
    /\ ~oRestore.done
    /\ \E target \in RestoreTargets, overwrite \in BOOLEAN, dry_run \in BOOLEAN :
        \E r \in {Restore(oStore, target, overwrite, dry_run)} :
        oRestore' = [done |-> TRUE, error |-> r.error, target |-> r.target,
                     replayed |-> r.replayed, reported |-> r.reported,
                     staged |-> r.staged, collected |-> r.collected,
                     before |-> target, overwrite |-> overwrite, dry_run |-> dry_run]
    /\ UNCHANGED <<oLocal, oSnapshot, oPending, oWorking, oStore, oProduced, oRun>>
    /\ UNCHANGED <<damaged, stepVars, diffVars, mirrorVars>>

\* The destination is changed once, before the Restore, when every directory
\* produced has been transferred.
Transferred ==
    /\ ~oRestore.done
    /\ damaged = NotDamaged
    /\ oWorking = << >>
    /\ ~oPending.present

\* A file of the pool of a dated directory is rewritten at the destination
\* with other bytes.
CorruptPoolFile ==
    /\ Transferred
    /\ \E i \in 1 .. Len(oStore) : \E h \in DOMAIN oStore[i].pool :
        /\ oStore' = [oStore EXCEPT ![i].pool =
                            Write(@, h, SameSizeContent(oStore[i].pool[h]))]
        /\ damaged' = [op |-> "pool", directory |-> i]
    /\ UNCHANGED <<oLocal, oSnapshot, oPending, oWorking, oProduced, oRun, oRestore>>
    /\ UNCHANGED <<stepVars, diffVars, mirrorVars>>

\* The index.json of a dated directory loses its last instruction at the
\* destination; index.json.hash stays.
CorruptIndex ==
    /\ Transferred
    /\ \E i \in 1 .. Len(oStore) :
        /\ oStore[i].index # << >>
        /\ oStore' = [oStore EXCEPT ![i].index = SubSeq(@, 1, Len(@) - 1)]
        /\ damaged' = [op |-> "index", directory |-> i]
    /\ UNCHANGED <<oLocal, oSnapshot, oPending, oWorking, oProduced, oRun, oRestore>>
    /\ UNCHANGED <<stepVars, diffVars, mirrorVars>>

\* A directory whose name is not a dated one, as test_InvalidDirectory makes.
InvalidDirectory ==
    [recognized |-> FALSE, primary |-> FALSE, pool |-> << >>, index |-> << >>,
     index_hash |-> IndexHash(<< >>)]

\* A directory with another name is made next to the dated directories.
MakeInvalidDirectory ==
    /\ Transferred
    /\ oStore' = Append(oStore, InvalidDirectory)
    /\ damaged' = [op |-> "name", directory |-> Len(oStore) + 1]
    /\ UNCHANGED <<oLocal, oSnapshot, oPending, oWorking, oProduced, oRun, oRestore>>
    /\ UNCHANGED <<stepVars, diffVars, mirrorVars>>

\* A primary directory is removed from the destination.
RemovePrimaryDirectory ==
    /\ Transferred
    /\ \E i \in primary_indexes(oStore) :
        /\ oStore' = SubSeq(oStore, 1, i - 1) \o SubSeq(oStore, i + 1, Len(oStore))
        /\ damaged' = [op |-> "primary", directory |-> i]
    /\ UNCHANGED <<oLocal, oSnapshot, oPending, oWorking, oProduced, oRun, oRestore>>
    /\ UNCHANGED <<stepVars, diffVars, mirrorVars>>

OffsiteInit ==
    /\ MirrorIdle
    /\ OffsiteIdle
    /\ dThis = EmptyTree
    /\ dOther = EmptyTree
    /\ dOrder = <<NameA, NameB>>
    /\ dPhase = "init"
    /\ dDiffs = << >>
    /\ dJson = NoJson

OffsiteNext ==
    \/ OffsiteBackupBlocked
    \/ OffsiteBackupNotFound
    \/ OffsiteBackup
    \/ OffsiteBackupNoDiffs
    \/ OffsiteCommit
    \/ OffsiteRestore

SpecOffsite == OffsiteInit /\ [][OffsiteNext]_vars

(***************************************************************************)
(* SpecDamage: the dated directories the Backup runs transferred are       *)
(* changed at the destination, once, and restored.                         *)
(***************************************************************************)
DamageNext ==
    \/ OffsiteBackup
    \/ CorruptPoolFile
    \/ CorruptIndex
    \/ MakeInvalidDirectory
    \/ RemovePrimaryDirectory
    \/ OffsiteRestore

SpecDamage == OffsiteInit /\ [][DamageNext]_vars

(***************************************************************************)
(* SpecTransfer: Offsite.Backup to a file-based destination followed file  *)
(* by file through "Transferring content to the destination..." and        *)
(* "Committing content on the destination...".  One task runs at a time    *)
(* (ssd is not set); a task may raise, and the tasks that have not started *)
(* may or may not run after that.  The model follows the files of the      *)
(* running transfer: a later run writes a directory of another name and    *)
(* reads nothing of what an earlier run left at the destination.           *)
(***************************************************************************)
\* Backup, "for root, _, filenames in os.walk(file_content_root)": the files
\* of the dated directory, the pool files named after their hash, index.json
\* and index.json.hash.
transfer_diffs(directory) ==
    {<<"pool", h>> : h \in DOMAIN directory.pool}
        \cup {<<"index.json", 0>>, <<"index.json.hash", 0>>}

\* A faulty variant of TransferReported: the result of the phase is not read.
TransferReported_Never(transfer) == FALSE

\* Backup, "if transfer_dm.result != 0: return" and "if commit_dm.result !=
\* 0: return": a task of the phase raised.
TransferReported(transfer) == transfer.failed # {}

\* Backup with a destination, up to the start of the transfer: the dated
\* directory is produced in the working directory.
TransferStart ==
    /\ MoreRuns
    /\ \E source \in OffsiteSources, force_arg \in BOOLEAN :
        /\ ~PendingBlocks(oPending, FALSE)
        /\ OffsiteDiffs(source, oSnapshot, force_arg) # << >>
        /\ oLocal' = source
        /\ oRun' = BackupRun(TRUE, force_arg, FALSE, "running",
                           Len(to_preserve(source, oSnapshot, force_arg)))
        /\ oTransfer' =
                [NotTransferring EXCEPT
                    !.phase = "transfer",
                    !.files = transfer_diffs(file_content_root(source, oSnapshot, force_arg)),
                    !.diffs = OffsiteDiffs(source, oSnapshot, force_arg)]
    /\ UNCHANGED <<oSnapshot, oPending, oWorking, oStore, oProduced, oRestore>>
    /\ UNCHANGED <<damaged, oCommit, cleaned, diffVars, mirrorVars>>

\* CopyLocalContent, Add.Execute: WriteFile streams a file to its ".__temp__"
\* name at the destination.
TransferWrite ==
    /\ oTransfer.phase = "transfer"
    /\ oTransfer.temp = {}
    /\ \E f \in oTransfer.files \ (oTransfer.pending \cup oTransfer.failed) :
        oTransfer' = [oTransfer EXCEPT !.temp = {f}]
    /\ UNCHANGED <<oLocal, oSnapshot, oPending, oWorking, oStore, oProduced, oRun,
                   oRestore>>
    /\ UNCHANGED <<damaged, oCommit, cleaned, diffVars, mirrorVars>>

\* WriteFile, "data_store.Rename(temp_dest_filename, dest_filename)": the
\* file gets its pending-commit name.
TransferRename ==
    /\ oTransfer.phase = "transfer"
    /\ \E f \in oTransfer.temp :
        oTransfer' = [oTransfer EXCEPT !.temp = {}, !.pending = @ \cup {f}]
    /\ UNCHANGED <<oLocal, oSnapshot, oPending, oWorking, oStore, oProduced, oRun,
                   oRestore>>
    /\ UNCHANGED <<damaged, oCommit, cleaned, diffVars, mirrorVars>>

\* WriteFile raises while the file has its ".__temp__" name: the task ends
\* with an error and the file keeps that name.
TransferWriteFails ==
    /\ oTransfer.phase = "transfer"
    /\ \E f \in oTransfer.temp :
        oTransfer' = [oTransfer EXCEPT !.temp = {}, !.failed = @ \cup {f}]
    /\ UNCHANGED <<oLocal, oSnapshot, oPending, oWorking, oStore, oProduced, oRun,
                   oRestore>>
    /\ UNCHANGED <<damaged, oCommit, cleaned, diffVars, mirrorVars>>

\* The end of "Transferring content to the destination...": with an error
\* the run returns, without one every file has its pending-commit name and
\* the commit phase begins.
TransferDone ==
    /\ oTransfer.phase = "transfer"
    /\ oTransfer.temp = {}
    /\ oTransfer.failed = {} => oTransfer.pending = oTransfer.files
    /\ IF TransferReported(oTransfer)
       THEN /\ oTransfer' = [NotTransferring EXCEPT !.diffs = oTransfer.diffs]
            /\ oRun' = [oRun EXCEPT !.result = "transfer failed"]
       ELSE /\ oTransfer' = [oTransfer EXCEPT !.phase = "commit"]
            /\ UNCHANGED oRun
    /\ UNCHANGED <<oLocal, oSnapshot, oPending, oWorking, oStore, oProduced, oRestore>>
    /\ UNCHANGED <<damaged, oCommit, cleaned, diffVars, mirrorVars>>

\* CommitContent.Execute, "destination_data_store.Rename(fullpath,
\* fullpath.with_suffix(""))": the pending-commit suffix is stripped.
CommitContentExecute ==
    /\ oTransfer.phase = "commit"
    /\ \E f \in oTransfer.pending \ oTransfer.failed :
        oTransfer' = [oTransfer EXCEPT !.pending = @ \ {f}, !.committed = @ \cup {f}]
    /\ UNCHANGED <<oLocal, oSnapshot, oPending, oWorking, oStore, oProduced, oRun,
                   oRestore>>
    /\ UNCHANGED <<damaged, oCommit, cleaned, diffVars, mirrorVars>>

\* The Rename of CommitContent.Execute raises: the file keeps its pending-commit name.
CommitContentRaises ==
    /\ oTransfer.phase = "commit"
    /\ \E f \in oTransfer.pending \ oTransfer.failed :
        oTransfer' = [oTransfer EXCEPT !.failed = @ \cup {f}]
    /\ UNCHANGED <<oLocal, oSnapshot, oPending, oWorking, oStore, oProduced, oRun,
                   oRestore>>
    /\ UNCHANGED <<damaged, oCommit, cleaned, diffVars, mirrorVars>>

\* The end of "Committing content on the destination...": with an error the
\* run returns; without one "Committing snapshot locally..." persists the
\* local snapshot as the standard one.
TransferCommitted ==
    /\ oTransfer.phase = "commit"
    /\ oTransfer.failed = {} => oTransfer.pending = {}
    /\ IF TransferReported(oTransfer)
       THEN /\ oTransfer' = [NotTransferring EXCEPT !.diffs = oTransfer.diffs]
            /\ oRun' = [oRun EXCEPT !.result = "commit failed"]
            /\ UNCHANGED <<oSnapshot, oStore, oProduced>>
       ELSE /\ oTransfer' = [NotTransferring EXCEPT !.diffs = oTransfer.diffs]
            /\ oRun' = [oRun EXCEPT !.result = "ok"]
            /\ oStore' = Append(oStore, file_content_root(oLocal, oSnapshot, oRun.force))
            /\ oProduced' = oLocal
            /\ oSnapshot' = Persisted(oLocal)
    /\ UNCHANGED <<oLocal, oPending, oWorking, oRestore>>
    /\ UNCHANGED <<damaged, oCommit, cleaned, diffVars, mirrorVars>>

TransferNext ==
    \/ TransferStart
    \/ TransferWrite
    \/ TransferRename
    \/ TransferWriteFails
    \/ TransferDone
    \/ CommitContentExecute
    \/ CommitContentRaises
    \/ TransferCommitted

SpecTransfer == OffsiteInit /\ [][TransferNext]_vars

(***************************************************************************)
(* SpecCommit: Offsite.Commit followed statement by statement, between     *)
(* Backup runs; the process may end between the two statements.            *)
(***************************************************************************)
\* A faulty variant of RemoveStandard: the pending snapshot file is removed
\* with the standard one.
RemoveStandard_Both(standard, pending) ==
    [standard |-> NoSnapshot, pending |-> NoSnapshot]

\* Commit, "PathEx.RemoveFile(snapshot_filenames.standard)": the two snapshot
\* files after the statement.
RemoveStandard(standard, pending) ==
    [standard |-> NoSnapshot, pending |-> pending]

\* Commit, "shutil.move(snapshot_filenames.pending,
\* snapshot_filenames.standard)": the two snapshot files after the statement.
MovePending(standard, pending) ==
    [standard |-> pending, pending |-> NoSnapshot]

\* Commit up to and including the removal of the standard snapshot; the
\* error when there is no pending snapshot.
CommitRemove ==
    /\ MoreRuns
    /\ IF oPending.present
       THEN /\ oSnapshot' = RemoveStandard(oSnapshot, oPending).standard
            /\ oPending' = RemoveStandard(oSnapshot, oPending).pending
            /\ oCommit' = "removed"
            /\ oRun' = [NotRun EXCEPT !.op = "Commit", !.result = "running"]
       ELSE /\ oRun' = [NotRun EXCEPT !.op = "Commit", !.result = "not found"]
            /\ UNCHANGED <<oSnapshot, oPending, oCommit>>
    /\ UNCHANGED <<oLocal, oWorking, oStore, oProduced, oRestore>>
    /\ UNCHANGED <<damaged, oTransfer, cleaned, diffVars, mirrorVars>>

\* Commit, the move of the pending snapshot.
CommitMove ==
    /\ oCommit = "removed"
    /\ oSnapshot' = MovePending(oSnapshot, oPending).standard
    /\ oPending' = MovePending(oSnapshot, oPending).pending
    /\ oCommit' = "idle"
    /\ oRun' = [oRun EXCEPT !.result = "ok"]
    /\ UNCHANGED <<oLocal, oWorking, oStore, oProduced, oRestore>>
    /\ UNCHANGED <<damaged, oTransfer, cleaned, diffVars, mirrorVars>>

\* The process of the Commit ends between the two statements.
CommitInterrupt ==
    /\ oCommit = "removed"
    /\ oCommit' = "idle"
    /\ oRun' = [oRun EXCEPT !.result = "interrupted"]
    /\ UNCHANGED <<oLocal, oSnapshot, oPending, oWorking, oStore, oProduced, oRestore>>
    /\ UNCHANGED <<damaged, oTransfer, cleaned, diffVars, mirrorVars>>

CommitNext ==
    \/ OffsiteBackup
    \/ CommitRemove
    \/ CommitMove
    \/ CommitInterrupt

SpecCommit == OffsiteInit /\ [][CommitNext]_vars

(***************************************************************************)
(* SpecCleanup: Mirror.Cleanup stopped part-way after MaxRuns Backup runs, *)
(* the first of them to an empty destination, and run again.               *)
(***************************************************************************)
\* PathEx.RemoveItem of p stopped part-way: some of the items at and below p
\* are gone, a directory only after everything below it.
RemoveItemPartial(fs, p) ==
    LET below == {q \in DOMAIN fs : IsPrefix(p, q)} IN
    {[q \in DOMAIN fs \ gone |-> fs[q]] :
        gone \in {S \in SUBSET below :
                    \A q \in S : \A r \in below : IsPrefix(q, r) => r \in S}}

\* A faulty variant of CleanupItemPartial: the pending-delete item leaves its
\* name before the item is at its original name.
CleanupItemPartial_Unlinked(fs, fullpath) ==
    IF suffix(fullpath) = PENDING_COMMIT_EXTENSION
    THEN RemoveItemPartial(fs, fullpath)
    ELSE IF suffix(fullpath) = PENDING_DELETE_EXTENSION
    THEN {fs, RemoveItem(RemoveItem(fs, with_suffix(fullpath)), fullpath),
          Rename(fs, fullpath, with_suffix(fullpath))}
    ELSE {fs}

\* The body of the loop over one listed item stopped part-way: the removal
\* of a pending-commit item, or Capabilities.Rename of a pending-delete item
\* between "PathEx.RemoveItem(new_path)" and "shutil.move".
CleanupItemPartial(fs, fullpath) ==
    IF suffix(fullpath) = PENDING_COMMIT_EXTENSION
    THEN RemoveItemPartial(fs, fullpath)
    ELSE IF suffix(fullpath) = PENDING_DELETE_EXTENSION
    THEN RemoveItemPartial(fs, with_suffix(fullpath))
            \cup {Rename(fs, fullpath, with_suffix(fullpath))}
    ELSE {fs}

RECURSIVE CleanupItemsPartial(_, _, _)
\* The loop over the listed items stopped at any of them.
CleanupItemsPartial(fs, root, items) ==
    IF items = << >> THEN {fs}
    ELSE CleanupItemPartial(fs, root \o <<Head(items)>>)
            \cup CleanupItemsPartial(CleanupItem(fs, root \o <<Head(items)>>),
                                     root, Tail(items))

RECURSIVE CleanupWalkPartial(_, _)
RECURSIVE CleanupWalkIntoPartial(_, _, _)

\* capabilities.Walk() with the loop body applied, stopped at any point.
CleanupWalkPartial(fs, root) ==
    CleanupItemsPartial(fs, root, directories(fs, root) \o filenames(fs, root))
        \cup CleanupWalkIntoPartial(
                CleanupItems(fs, root, directories(fs, root) \o filenames(fs, root)),
                root, directories(fs, root))

CleanupWalkIntoPartial(fs, root, listed) ==
    IF listed = << >> THEN {fs}
    ELSE (IF GetItemType(fs, root \o <<Head(listed)>>) = "Dir"
          THEN CleanupWalkPartial(fs, root \o <<Head(listed)>>)
          ELSE {fs})
            \cup CleanupWalkIntoPartial(
                    IF GetItemType(fs, root \o <<Head(listed)>>) = "Dir"
                    THEN CleanupWalk(fs, root \o <<Head(listed)>>)
                    ELSE fs,
                    root, Tail(listed))

\* _CleanupImpl stopped at any point: the file systems it can leave.
CleanupPartial(fs) ==
    IF GetItemType(fs, <<CONTENT_DIR_NAME>>) = "None" THEN {fs}
    ELSE IF GetItemType(fs, <<CONTENT_DIR_NAME>>) = "File"
    THEN {fs, RemoveItem(fs, <<CONTENT_DIR_NAME>>)}
    ELSE CleanupWalkPartial(fs, << >>)

\* Mirror.Cleanup whose process ends before it is done.
CleanupInterrupt ==
    /\ step = "idle"
    /\ runs = MaxRuns
    /\ cleaned = NotCleaned
    /\ \E fs \in CleanupPartial(dest) :
        /\ dest' = fs
        /\ cleaned' = [phase |-> "interrupted", before |-> dest, left |-> fs]
    /\ validated' = NotValidated
    /\ UNCHANGED <<local, runVars, runs, clean, finalized, mRun, tampered>>
    /\ UNCHANGED <<oLocal, oSnapshot, oPending, oWorking, oStore, oProduced, oRun,
                   oRestore, damaged, oTransfer, oCommit, diffVars>>

\* Mirror.Cleanup run to its end after the interrupted one.
CleanupAgain ==
    /\ step = "idle"
    /\ cleaned.phase = "interrupted"
    /\ dest' = CleanupImpl(dest)
    /\ cleaned' = [cleaned EXCEPT !.phase = "again"]
    /\ validated' = NotValidated
    /\ UNCHANGED <<local, runVars, runs, clean, finalized, mRun, tampered>>
    /\ UNCHANGED <<oLocal, oSnapshot, oPending, oWorking, oStore, oProduced, oRun,
                   oRestore, damaged, oTransfer, oCommit, diffVars>>

CleanupNext ==
    \/ BackupStart
    \/ SnapshotRename
    \/ MakeContent
    \/ RemoveTask
    \/ AddTaskWrite
    \/ AddTaskRename
    \/ CommitTask
    \/ DeleteTask
    \/ PhaseDone
    \/ Finalize
    \/ Interrupt
    \/ CleanupInterrupt
    \/ CleanupAgain

SpecCleanup == MirrorInit /\ [][CleanupNext]_vars

(***************************************************************************)
(* What a destination holding the content of snapshot T holds after the    *)
(* operations of a diff are carried out the way the executors do: every    *)
(* remove path goes with everything below it, then every add and modify    *)
(* leaf is written, its parent directories created on the way.             *)
(***************************************************************************)
ApplyDiffs(T, ds) ==
    LET removed == {ds[i].path : i \in DiffsWithOperation(ds, {"remove"})}
        writes  == DiffsWithOperation(ds, {"add", "modify"})
        written == {ds[i].path : i \in writes}
        kept    == {p \in DOMAIN T : \A r \in removed : ~IsPrefix(r, p)}
        made    == UNION {Prefixes(p) : p \in written}
        WriteOf(p) == ds[CHOOSE i \in writes : ds[i].path = p]
    IN [p \in (kept \cup made) \ {<< >>} |->
            IF p \in written
            THEN Node(WriteOf(p).this_hash, WriteOf(p).this_file_size)
            ELSE IF p \in kept THEN T[p] ELSE DirNode(FALSE)]

\* Childless nodes of a tree.
Leaves(T) == {p \in DOMAIN T : ChildNames(T, p) = {}}

\* Two nodes hold the same item: the same content, or a directory each.
SameItem(m, n) == HashEq(m.hash_value, n.hash_value)

\* Every childless directory of T carries explicitly_added, as in every tree
\* built by Calculate or by AddFile and AddDir alone.
EmptyDirsExplicit(T) ==
    \A p \in DOMAIN T :
        (is_dir(T[p]) /\ ChildNames(T, p) = {}) => T[p].hash_value.explicitly_added

\* C3 (as stated): the operations of this.Diff(other) transform other into
\* this.  Removing every remove path with everything below it and writing every
\* add and modify leaf leaves every file of this in place with its content,
\* keeps every explicitly added empty directory of this, and leaves nothing
\* that this does not hold.
C3_DiffTransforms ==
    dPhase = "hashes" =>
        LET R == ApplyDiffs(dOther, dDiffs) IN
        /\ \A p \in DOMAIN dThis :
                is_file(dThis[p]) => (p \in DOMAIN R /\ SameItem(R[p], dThis[p]))
        /\ \A p \in Leaves(dThis) :
                (is_dir(dThis[p]) /\ dThis[p].hash_value.explicitly_added)
                    => (p \in DOMAIN R /\ is_dir(R[p]))
        /\ \A p \in DOMAIN R : p \in DOMAIN dThis /\ SameItem(R[p], dThis[p])

\* The same statement over the trees whose childless directories are all
\* explicitly added.
C3_OnBuiltTrees ==
    (EmptyDirsExplicit(dThis) /\ EmptyDirsExplicit(dOther)) => C3_DiffTransforms

(***************************************************************************)
(* C10.                                                                    *)
(***************************************************************************)
\* Directories both snapshots hold, one of the two placeholders explicitly
\* added.
ExplicitDirs ==
    {p \in DOMAIN dThis \cap DOMAIN dOther :
        /\ is_dir(dThis[p])
        /\ is_dir(dOther[p])
        /\ (dThis[p].hash_value.explicitly_added \/ dOther[p].hash_value.explicitly_added)}

\* The children of other's directory p that this does not hold.
RemovedUnder(p) == {n \in ChildNames(dOther, p) : n \notin ChildNames(dThis, p)}

HasRemoveAt(p) ==
    \E i \in 1 .. Len(dDiffs) : dDiffs[i].operation = "remove" /\ dDiffs[i].path = p

\* C10: when either side's placeholder of a directory is explicitly added and
\* children of the directory are to be removed, the removes of those children
\* are in the diff one by one, and no remove names the directory or a
\* directory above it.
C10_ExplicitDirNeverCollapsed ==
    dPhase # "init" =>
        \A p \in ExplicitDirs :
            RemovedUnder(p) # {} =>
                /\ \A n \in RemovedUnder(p) : HasRemoveAt(p \o <<n>>)
                /\ \A q \in Prefixes(p) \cup {<< >>} : ~HasRemoveAt(q)

\* A nested directory explicitly added on other's side only, emptied on this
\* side, with its child's remove in the diff.
C10_Witness ==
    /\ dPhase # "init"
    /\ <<NameA, NameA>> \in ExplicitDirs
    /\ ~dThis[<<NameA, NameA>>].hash_value.explicitly_added
    /\ ChildNames(dThis, <<NameA>>) = {NameA}
    /\ ChildNames(dThis, <<NameA, NameA>>) = {}
    /\ RemovedUnder(<<NameA, NameA>>) = {NameA}
    /\ HasRemoveAt(<<NameA, NameA, NameA>>)

\* The directories both snapshots hold, the root included.
DirPairs ==
    {<< >>} \cup {p \in DOMAIN dThis \cap DOMAIN dOther :
                    is_dir(dThis[p]) /\ is_dir(dOther[p])}

\* The directory pairs whose combined child summary is remove and whose
\* placeholders are both not explicitly added.
Collapsing ==
    {p \in DirPairs :
        /\ ChildSummary(dThis, dOther, p, dPhase = "hashes", dOrder).result = "remove"
        /\ ~NodeAt(dThis, p).hash_value.explicitly_added
        /\ ~NodeAt(dOther, p).hash_value.explicitly_added}

\* The positions of the diff whose path is p, and those whose path is below p.
RecordsAt(p) == {i \in 1 .. Len(dDiffs) : dDiffs[i].path = p}

RecordsBelow(p) ==
    {i \in 1 .. Len(dDiffs) : dDiffs[i].path # p /\ IsPrefix(p, dDiffs[i].path)}

\* C11: when the combined child summary of a directory pair is remove and
\* neither placeholder is explicitly added, the pair yields exactly one record,
\* the remove of the directory carrying other's placeholder, and the diff holds
\* no record below the directory and exactly one remove at the directory or at
\* a directory above it.
C11_CollapsedToOneRemove ==
    dPhase # "init" =>
        \A p \in Collapsing :
            /\ CreateDiffs(dThis, dOther, p, dPhase = "hashes", dOrder).diffs
                    = << DiffResult("remove", p, None, NoSize,
                                    NodeAt(dOther, p).hash_value,
                                    NodeAt(dOther, p).file_size) >>
            /\ RecordsBelow(p) = {}
            /\ Cardinality({i \in 1 .. Len(dDiffs) :
                                /\ dDiffs[i].operation = "remove"
                                /\ IsPrefix(dDiffs[i].path, p)}) = 1

\* Directory a/a lost its only child and collapses while its sibling a/b is
\* modified: the diff is the remove of a/a and the modify of a/b.
C11_Witness ==
    /\ dPhase = "hashes"
    /\ <<NameA, NameA>> \in Collapsing
    /\ <<NameA, NameA, NameA>> \in DOMAIN dOther
    /\ RecordsAt(<<NameA, NameA>>) # {}
    /\ Len(dDiffs) = 2

(***************************************************************************)
(* C12.                                                                    *)
(***************************************************************************)
\* list(other.Diff(this)) in the comparison mode of the diff that was taken.
ReverseDiffs == Diff(dOther, dThis, dPhase = "hashes", dOrder)

\* ds holds a record of the operation at the path.
HasRecord(ds, operation, p) ==
    \E i \in 1 .. Len(ds) : ds[i].operation = operation /\ ds[i].path = p

\* Every add of xs is a remove of ys at the same path, and every modify of xs
\* is a modify of ys at the same path with the this and other fields swapped.
MirroredIn(xs, ys) ==
    \A i \in 1 .. Len(xs) :
        /\ xs[i].operation = "add" => HasRecord(ys, "remove", xs[i].path)
        /\ xs[i].operation = "modify" =>
                \E j \in 1 .. Len(ys) :
                    ys[j] = DiffResult("modify", xs[i].path,
                                       xs[i].other_hash, xs[i].other_file_size,
                                       xs[i].this_hash, xs[i].this_file_size)

\* C12 (as stated): this.Diff(other) and other.Diff(this) are mirror images:
\* every add of one is a remove of the other at the same path, and every
\* modify of one is a modify of the other at the same path with the (this,
\* other) hash and size fields swapped.
C12_MirrorImages ==
    dPhase # "init" =>
        /\ MirroredIn(dDiffs, ReverseDiffs)
        /\ MirroredIn(ReverseDiffs, dDiffs)

\* The same statement over the trees whose childless directories are all
\* explicitly added.
C12_OnBuiltTrees ==
    (EmptyDirsExplicit(dThis) /\ EmptyDirsExplicit(dOther)) => C12_MirrorImages

\* Every add of xs lies at or below a remove of ys, every remove of xs lies at
\* or above an add of ys, and every modify of xs is a modify of ys with the
\* fields swapped.
CoveredIn(xs, ys) ==
    \A i \in 1 .. Len(xs) :
        /\ xs[i].operation = "add" =>
                \E j \in 1 .. Len(ys) :
                    ys[j].operation = "remove" /\ IsPrefix(ys[j].path, xs[i].path)
        /\ xs[i].operation = "remove" =>
                \E j \in 1 .. Len(ys) :
                    ys[j].operation = "add" /\ IsPrefix(xs[i].path, ys[j].path)
        /\ xs[i].operation = "modify" =>
                \E j \in 1 .. Len(ys) :
                    ys[j] = DiffResult("modify", xs[i].path,
                                       xs[i].other_hash, xs[i].other_file_size,
                                       xs[i].this_hash, xs[i].this_file_size)

\* C12 (amended): every add of one diff lies at or below the path of a remove
\* of the other, every remove of one lies at or above the path of an add of
\* the other, and every modify of one is a modify of the other at the same
\* path with the (this, other) hash and size fields swapped.
C12_MirrorUpToCollapse ==
    dPhase # "init" =>
        /\ CoveredIn(dDiffs, ReverseDiffs)
        /\ CoveredIn(ReverseDiffs, dDiffs)

\* this holds the file a/a/a and a modified a/b, other holds a/b alone: the
\* diff adds a/a/a, its mirror removes the directory a/a.
C12_Witness ==
    /\ dPhase = "hashes"
    /\ HasRecord(dDiffs, "add", <<NameA, NameA, NameA>>)
    /\ HasRecord(dDiffs, "modify", <<NameA, NameB>>)
    /\ HasRecord(ReverseDiffs, "remove", <<NameA, NameA>>)
    /\ HasRecord(ReverseDiffs, "modify", <<NameA, NameB>>)

(***************************************************************************)
(* C13.                                                                    *)
(***************************************************************************)
\* The childless directories of T that are explicitly added.
ExplicitEmptyDirs(T) ==
    {p \in Leaves(T) : is_dir(T[p]) /\ T[p].hash_value.explicitly_added}

\* C13: the diff of a snapshot against itself is empty, with hash comparison
\* and with size-only comparison, whatever the snapshot holds.
C13_SelfDiffEmpty ==
    (dPhase # "init" /\ dThis = dOther) => dDiffs = << >>

\* A snapshot with the file a/b and the explicitly added empty directory a/a,
\* compared against itself by size.
C13_Witness ==
    /\ dPhase = "sizes"
    /\ dThis = dOther
    /\ <<NameA, NameA>> \in ExplicitEmptyDirs(dThis)
    /\ <<NameA, NameB>> \in DOMAIN dThis
    /\ is_file(dThis[<<NameA, NameB>>])
    /\ dDiffs = << >>

(***************************************************************************)
(* C14.                                                                    *)
(***************************************************************************)
\* file_size is None exactly when the hash is a placeholder or None.
SideConsistent(hash, file_size) == (file_size = NoSize) <=> (hash.k # "str")

\* The consistency invariants of a DiffResult.
Consistent(d) ==
    /\ d.operation = "add" => (d.this_hash # None /\ d.other_hash = None)
    /\ d.operation = "remove" => (d.this_hash = None /\ d.other_hash # None)
    /\ d.operation = "modify" =>
            /\ d.this_hash # None
            /\ d.other_hash # None
            /\ d.this_hash.k = d.other_hash.k
            /\ d.this_hash.k = "str" => d.this_hash.v # d.other_hash.v
    /\ SideConsistent(d.this_hash, d.this_file_size)
    /\ SideConsistent(d.other_hash, d.other_file_size)

\* Snapshot.DiffResult.__post_init__: the three assertions every record of
\* CreateDiffs passes on construction.
post_init(d) ==
    /\ \/ d.operation = "add" /\ d.this_hash # None /\ d.other_hash = None
       \/ d.operation = "modify" /\ d.this_hash # None /\ d.other_hash # None
       \/ d.operation = "remove" /\ d.this_hash = None /\ d.other_hash # None
    /\ SideConsistent(d.this_hash, d.this_file_size)
    /\ SideConsistent(d.other_hash, d.other_file_size)

\* C14 (as stated): every record a diff emits, in either comparison mode,
\* satisfies the consistency invariants: add has this_hash set and other_hash
\* null, remove has this_hash null and other_hash set, modify has both hashes
\* set, of the same kind and different when both are strings, and on each side
\* file_size is null exactly when the hash is a placeholder or null.
C14_DiffResultsConsistent ==
    \A i \in 1 .. Len(dDiffs) : Consistent(dDiffs[i])

\* Every record passes the assertions of Snapshot.DiffResult.__post_init__.
C14_PostInitHolds ==
    \A i \in 1 .. Len(dDiffs) : post_init(dDiffs[i])

\* The statement holds whenever one of the two snapshots carries digests.
C14_WhenOneSideHashed ==
    (~Hashless(dThis) \/ ~Hashless(dOther)) => C14_DiffResultsConsistent

\* Two snapshots calculated without hashes whose file a/b differs in size,
\* compared by size: the modify record carries "ignored" on both sides.
C14_EqualHashModify ==
    /\ dPhase = "sizes"
    /\ \E i \in 1 .. Len(dDiffs) :
            /\ dDiffs[i].operation = "modify"
            /\ dDiffs[i].this_hash = StrHash(IgnoredHash)
            /\ dDiffs[i].other_hash = StrHash(IgnoredHash)

(***************************************************************************)
(* Properties of the mirror executor.                                      *)
(***************************************************************************)
\* The items whose name ends in a pending extension.
Sidecars(fs) ==
    {p \in DOMAIN fs :
        suffix(p) \in {PENDING_COMMIT_EXTENSION, PENDING_DELETE_EXTENSION}}

\* The items at or below Content.
ContentOf(fs) == [p \in {q \in DOMAIN fs : IsPrefix(<<CONTENT_DIR_NAME>>, q)} |-> fs[p]]

\* Every pending-delete item of before is in after under its original name.
Restored(before, after) ==
    \A p \in DOMAIN before :
        suffix(p) = PENDING_DELETE_EXTENSION =>
            (with_suffix(p) \in DOMAIN after /\ after[with_suffix(p)] = before[p])

\* C1 (as stated): whenever no Backup is running, whatever the earlier runs
\* left behind, a Cleanup renames every pending-delete item back to its
\* original name and removes every pending-commit item: no sidecar item
\* remains at the destination.
C1_CleanupRecovers ==
    step = "idle" =>
        /\ Restored(dest, CleanupImpl(dest))
        /\ Sidecars(CleanupImpl(dest)) = {}

\* The same where Content exists: the part of the statement the walk delivers.
CleanupRecoversContent ==
    (step = "idle" /\ GetItemType(dest, <<CONTENT_DIR_NAME>>) = "Dir") =>
        /\ Restored(dest, CleanupImpl(dest))
        /\ Sidecars(CleanupImpl(dest)) = {}

\* C2: a Validate that follows Backup runs none of which was interrupted or
\* saw a task fail, the first of them into the empty destination, reports no
\* differences, in standard mode and in complete mode.
C2_ValidateAfterBackup ==
    (validated.done /\ clean) => validated.diffs = << >>

\* Two finalized runs, the second one changing what the first one mirrored,
\* then a complete Validate.
C2_WitnessComplete ==
    /\ validated.done
    /\ validated.complete
    /\ clean
    /\ finalized = 2
    /\ <<CONTENT_DIR_NAME, NameA, NameA, NameA>> \in DOMAIN dest

\* C5: Cleanup is idempotent on every state the destination gets into, and a
\* destination without sidecar items is left as it is.
C5_CleanupIdempotent ==
    /\ CleanupImpl(CleanupImpl(dest)) = CleanupImpl(dest)
    /\ Sidecars(dest) = {} => CleanupImpl(dest) = dest

\* An interrupted run left pending-commit and pending-delete items below
\* Content, and Cleanup changes the destination.
C5_Witness ==
    /\ step = "idle"
    /\ \E p \in Sidecars(dest) : Len(p) > 2 /\ suffix(p) = PENDING_COMMIT_EXTENSION
    /\ \E p \in Sidecars(dest) : Len(p) > 2 /\ suffix(p) = PENDING_DELETE_EXTENSION
    /\ CleanupImpl(dest) # dest

\* BackupSnapshot.json.__pending_commit__ in the destination directory.
PendingSnapshot == << <<"BackupSnapshot", "json", "__pending_commit__">> >>

\* The snapshot of the running Backup is at the destination under its pending
\* name.
PendingSnapshotWritten ==
    /\ PendingSnapshot \in DOMAIN dest
    /\ dest[PendingSnapshot].json = ToJson(local_snapshot(local), << >>)

\* This step renames a pending-commit item below Content to its final name.
CommitRenamed ==
    \E p \in DOMAIN dest :
        /\ Len(p) > 1
        /\ suffix(p) = PENDING_COMMIT_EXTENSION
        /\ p \notin DOMAIN dest'
        /\ with_suffix(p) \in DOMAIN dest'
        /\ dest'[with_suffix(p)] = dest[p]

\* Every add and modify task of the run has returned its pending-commit item.
AddsFinished ==
    /\ writing = {}
    /\ \A path \in AddTasks(diffs) :
        create_destination_path_func(path, PENDING_COMMIT_EXTENSION) \in pending_commit_items

\* C6: within a run no pending-commit item is renamed to its final name before
\* every add and modify task of the run has finished writing its
\* pending-commit item.
C6_WritesBeforeCommits ==
    [][(step # "idle" /\ CommitRenamed) => AddsFinished]_vars

\* A commit phase over two pending-commit items, one of them renamed already.
C6_Witness ==
    /\ step = "commit"
    /\ Cardinality(pending_commit_items) >= 2
    /\ \E p \in pending_commit_items :
        p \notin DOMAIN dest /\ with_suffix(p) \in DOMAIN dest
    /\ \E p \in pending_commit_items : p \in todo

\* C7: a running Backup changes Content only while its snapshot is at the
\* destination under the pending name, and whenever pending items are below
\* Content and no Backup is running the pending snapshot is still there.
C7_SnapshotBeforeContent ==
    /\ [][(step # "idle" /\ ContentOf(dest') # ContentOf(dest)) => PendingSnapshotWritten]_vars
    /\ []((step = "idle" /\ Sidecars(ContentOf(dest)) # {})
            => PendingSnapshot \in DOMAIN dest)

\* A Backup interrupted after it placed data: pending items below Content, the
\* pending snapshot of the interrupted run next to Content.
C7_Witness ==
    /\ step = "idle"
    /\ \E p \in Sidecars(ContentOf(dest)) : suffix(p) = PENDING_COMMIT_EXTENSION
    /\ PendingSnapshotWritten
    /\ IsPersisted(dest)

\* This step puts a new document under BackupSnapshot.json.
SnapshotReplaced ==
    /\ <<PERSISTED_FILE_NAME>> \in DOMAIN dest'
    /\ (<<PERSISTED_FILE_NAME>> \in DOMAIN dest
            => dest'[<<PERSISTED_FILE_NAME>>] # dest[<<PERSISTED_FILE_NAME>>])

\* Every pending-commit item of the run is in place under its final name and
\* every pending-delete item is gone.
AllCommitted ==
    /\ \A p \in pending_commit_items : p \notin DOMAIN dest /\ with_suffix(p) \in DOMAIN dest
    /\ \A p \in pending_delete_items : p \notin DOMAIN dest
    /\ Sidecars(ContentOf(dest)) = {}

\* The persisted snapshot is the same before and after this step.
SnapshotKept ==
    /\ (<<PERSISTED_FILE_NAME>> \in DOMAIN dest') = (<<PERSISTED_FILE_NAME>> \in DOMAIN dest)
    /\ (<<PERSISTED_FILE_NAME>> \in DOMAIN dest
            => dest'[<<PERSISTED_FILE_NAME>>] = dest[<<PERSISTED_FILE_NAME>>])

\* C8: BackupSnapshot.json is replaced only when every pending-commit item has
\* been renamed to its final name and every pending-delete item removed, and
\* once a task of a run has reported an error no step of that run touches it.
C8_FinalizeLast ==
    [][(SnapshotReplaced => AllCommitted) /\ (error => SnapshotKept)]_vars

\* The second finalized run: its snapshot replaced the one of the first.
C8_Witness ==
    /\ step = "idle"
    /\ finalized = 2
    /\ IsPersisted(dest)
    /\ dest[<<PERSISTED_FILE_NAME>>].json = ToJson(local_snapshot(local), << >>)
    /\ Sidecars(dest) = {}

RECURSIVE CommitAll(_, _)
\* The loop of "Committing added content..." over items.
CommitAll(fs, items) ==
    IF items = << >> THEN fs ELSE CommitAll(CommitItem(fs, Head(items)), Tail(items))

RECURSIVE DeleteAll(_, _)
\* The loop of "Committing removed content..." over items.
DeleteAll(fs, items) ==
    IF items = << >> THEN fs ELSE DeleteAll(DeleteItem(fs, Head(items)), Tail(items))

\* The commit loops are about to start.
CommitStart == step = "commit" /\ todo = pending_commit_items

\* C9: when the commit loops start, renaming every pending-commit item and then
\* removing every pending-delete item leaves the destination as removing first
\* and renaming second does, and no pending-commit item or target is at or
\* below a pending-delete item.
C9_CommitOrder ==
    CommitStart =>
        /\ DeleteAll(CommitAll(dest, SetToSeq(pending_commit_items)),
                     SetToSeq(pending_delete_items))
            = CommitAll(DeleteAll(dest, SetToSeq(pending_delete_items)),
                        SetToSeq(pending_commit_items))
        /\ \A c \in pending_commit_items : \A d \in pending_delete_items :
            /\ ~IsPrefix(d, c)
            /\ ~IsPrefix(d, with_suffix(c))
            /\ with_suffix(c) # d

\* The commit loops start over a pending-commit item and a pending-delete item
\* of the same original name (a modified file, or a directory that became a
\* file).
C9_Witness ==
    /\ CommitStart
    /\ \E c \in pending_commit_items : \E d \in pending_delete_items :
        /\ with_suffix(c) = with_suffix(d)
        /\ c \in DOMAIN dest
        /\ d \in DOMAIN dest

(***************************************************************************)
(* Claims about the offsite executor (SpecOffsite).                        *)
(***************************************************************************)
\* The destination holds one primary directory followed by deltas only, and
\* every run was made with a destination.
PrimaryAndDeltas ==
    /\ oStore # << >>
    /\ primary_indexes(oStore) = {1}
    /\ oWorking = << >>

\* A Restore into an empty target was made, not as a dry run.
RestoredIntoEmpty == oRestore.done /\ oRestore.before = EmptyFs /\ ~oRestore.dry_run

\* The hashes that are preserved in more than one directory of the store.
PreservedTwice ==
    {h \in Contents : \E i, j \in 1 .. Len(oStore) :
        i # j /\ h \in DOMAIN oStore[i].pool /\ h \in DOMAIN oStore[j].pool}

\* C4 (as stated): after a primary backup followed by N delta backups, Restore
\* into an empty target succeeds and the target holds exactly the files, with
\* their content, and the directories the local file system held when the
\* last directory was produced.
C4_RestoreReproduces ==
    (RestoredIntoEmpty /\ PrimaryAndDeltas) =>
        (~oRestore.error /\ oRestore.target = oProduced)

\* The same statement over the stores in which no file is preserved twice.
C4_NothingPreservedTwice ==
    (RestoredIntoEmpty /\ PrimaryAndDeltas /\ PreservedTwice = {}) =>
        (~oRestore.error /\ oRestore.target = oProduced)

\* A file preserved twice always ends the Restore with an error and an
\* untouched target.
C4_PreservedTwiceFails ==
    (RestoredIntoEmpty /\ PrimaryAndDeltas /\ PreservedTwice # {}) =>
        (oRestore.error /\ oRestore.target = EmptyFs)

(***************************************************************************)
(* C15.                                                                    *)
(***************************************************************************)
\* The step is a run of Backup; oRun' holds its arguments and its outcome.
BackupStep == oRun'.op = "Backup" /\ oRestore' = oRestore

\* The step is a run of Commit.
CommitStep == oRun'.op = "Commit" /\ oRestore' = oRestore

\* C15: while a pending snapshot file exists, a Backup run without
\* ignore_pending_snapshot ends blocked: no dated directory is created in the
\* working directory or at the destination and no snapshot file changes.  With
\* ignore_pending_snapshot the pending file is discarded and the run proceeds;
\* a Commit renames pending to standard, and Backup is not blocked when no
\* pending file exists.
C15_PendingBlocksBackup ==
    [][/\ (oPending.present /\ BackupStep /\ ~oRun'.ignore_pending_snapshot) =>
            /\ oRun'.result = "blocked"
            /\ UNCHANGED <<oSnapshot, oPending, oWorking, oStore>>
       /\ (oPending.present /\ BackupStep /\ oRun'.ignore_pending_snapshot) =>
            /\ oRun'.result \in {"ok", "no diffs"}
            /\ oPending' # oPending \/ oWorking' # oWorking
            /\ oPending'.present => (oRun'.result = "ok" /\ ~oRun'.destination)
       /\ (oPending.present /\ CommitStep) =>
            (oSnapshot' = oPending /\ ~oPending'.present)
       /\ (~oPending.present /\ BackupStep) => oRun'.result # "blocked"
      ]_vars

\* A Backup run was blocked by the pending snapshot of a run without a
\* destination.
C15_Witness ==
    /\ oRun.op = "Backup"
    /\ oRun.result = "blocked"
    /\ oPending.present
    /\ Len(oWorking) = 1
    /\ ~oSnapshot.present

(***************************************************************************)
(* C16.                                                                    *)
(***************************************************************************)
\* The snapshot file holding the snapshot of the local file system fs.
SnapshotFileOf(fs) ==
    [present |-> TRUE, json |-> ToJson(Calculate(fs, input_dir, TRUE), << >>)]

\* A successful run with a destination makes the snapshot of the local file
\* system the standard snapshot file; a successful run without one makes it
\* the pending snapshot file only and leaves its dated directory in the
\* working directory.
PersistsOnSuccess ==
    /\ (BackupStep /\ oRun'.result = "ok" /\ oRun'.destination) =>
            /\ oSnapshot' = SnapshotFileOf(oLocal')
            /\ ~oPending'.present
            /\ Len(oStore') = Len(oStore) + 1
            /\ oWorking' = oWorking
    /\ (BackupStep /\ oRun'.result = "ok" /\ ~oRun'.destination) =>
            /\ oPending' = SnapshotFileOf(oLocal')
            /\ oSnapshot' = oSnapshot
            /\ Len(oWorking') = Len(oWorking) + 1
            /\ SubSeq(oWorking', 1, Len(oWorking)) = oWorking
            /\ oStore' = oStore

EmittedDir ==
    IF oRun.destination THEN oStore[Len(oStore)] ELSE oWorking[Len(oWorking)]

\* C17: a Backup that has changes to record emits a primary directory (no
\* ".delta" suffix) exactly when no standard snapshot exists before the run or
\* force is set, and a ".delta" directory in every other case.
C17_PrimaryIffForcedOrFirst ==
    [][(BackupStep /\ oRun'.result = "ok") =>
            (EmittedDir'.primary <=> (oRun'.force \/ ~oSnapshot.present))
      ]_vars

\* The second directory at the destination is a primary one: the run was
\* forced while a standard snapshot existed.
C17_Witness ==
    /\ oRun.op = "Backup"
    /\ oRun.result = "ok"
    /\ oRun.destination
    /\ oRun.force
    /\ Len(oStore) = 2
    /\ oStore[1].primary
    /\ oStore[2].primary

(***************************************************************************)
(* C18.                                                                    *)
(***************************************************************************)
\* The hashes of the files of a persisted snapshot document.
RECURSIVE JsonFileHashes(_)
JsonFileHashes(doc) ==
    (IF doc.hash_value.t = "string" THEN {doc.hash_value.s} ELSE {})
        \cup UNION {JsonFileHashes(doc.children[n]) : n \in DOMAIN doc.children}

\* The hash and the size the persisted snapshot document holds for the file at
\* path p, None when it holds no file there.
RECURSIVE JsonFileAt(_, _)
JsonFileAt(doc, p) ==
    IF p = << >>
    THEN IF doc.hash_value.t = "string" THEN StrHash(doc.hash_value.s) ELSE None
    ELSE IF Head(p) \in DOMAIN doc.children
    THEN JsonFileAt(doc.children[Head(p)], Tail(p))
    ELSE None

\* The hashes of the files of fs that a run compared with the standard
\* snapshot file records as added or modified, and the hashes the prior
\* offsite snapshot holds.
PriorHashes(snapshot, forced) ==
    IF forced \/ ~snapshot.present THEN {} ELSE JsonFileHashes(snapshot.json)

ChangedHashes(fs, snapshot, forced) ==
    {HashOf(fs[p].data) : p \in {q \in DOMAIN fs :
        /\ fs[q].type = "File"
        /\ \/ forced
           \/ ~snapshot.present
           \/ JsonFileAt(snapshot.json, q) # StrHash(HashOf(fs[q].data))}}

\* C18: the pool entries a run writes are one per distinct hash among its
\* added and modified files whose hash is not in the prior offsite snapshot:
\* files sharing a hash give one entry, a file whose hash the prior snapshot
\* holds gives none.
C18_OnePoolEntryPerNewHash ==
    [][(BackupStep /\ oRun'.result = "ok") =>
            LET expected == ChangedHashes(oLocal', oSnapshot, oRun'.force)
                                \ PriorHashes(oSnapshot, oRun'.force)
            IN /\ DOMAIN EmittedDir'.pool = expected
               /\ oRun'.preserved = Cardinality(expected)
      ]_vars

\* The second run adds a/b with the content a/a had in the first run: its
\* directory records the add and holds no pool entry.
C18_Witness ==
    /\ oRun.op = "Backup"
    /\ oRun.result = "ok"
    /\ oRun.preserved = 0
    /\ Len(oStore) = 2
    /\ DOMAIN oStore[1].pool = {HashOf(1)}
    /\ DOMAIN oStore[2].pool = {}
    /\ \E i \in 1 .. Len(oStore[2].index) :
            /\ oStore[2].index[i].operation = "add"
            /\ oStore[2].index[i].this_hash = StrHash(HashOf(1))

\* The first run adds a/a and a/b with the same content: one pool entry.
C18_SharedHash ==
    /\ oRun.op = "Backup"
    /\ oRun.result = "ok"
    /\ oRun.preserved = 1
    /\ Len(oStore) = 1
    /\ Len(oStore[1].index) = 2
    /\ DOMAIN oStore[1].pool = {HashOf(1)}

(***************************************************************************)
(* C19.                                                                    *)
(***************************************************************************)
\* The positions, in the listing of the destination, of the directories whose
\* name has no ".delta" suffix.
PrimariesListed == {i \in 1 .. Len(oStore) : oStore[i].primary}

\* C19: Restore replays only when the listing of the destination holds exactly
\* one primary directory, and then replays that directory followed by every
\* later one, in order; with no primary directory or with more than one it
\* reports an error, replays no directory and leaves the target as it was.
C19_ReplayFromSolePrimary ==
    oRestore.done =>
        IF Cardinality(PrimariesListed) = 1
        THEN \E first \in PrimariesListed :
                /\ Len(oRestore.replayed) = Len(oStore) - first + 1
                /\ \A k \in 1 .. Len(oRestore.replayed) :
                        oRestore.replayed[k] = first + k - 1
        ELSE /\ oRestore.error
             /\ oRestore.replayed = << >>
             /\ oRestore.target = oRestore.before

\* The destination lists a delta directory, then the only primary one: the
\* Restore replayed the primary one alone.
C19_Witness ==
    /\ oRestore.done
    /\ ~oRestore.error
    /\ Len(oStore) = 2
    /\ ~oStore[1].primary
    /\ oStore[2].primary
    /\ oRestore.replayed = <<2>>

\* The destination lists no primary directory: the Restore replayed nothing.
C19_NoPrimary ==
    /\ oRestore.done
    /\ oRestore.error
    /\ Len(oStore) = 1
    /\ PrimariesListed = {}
    /\ oRestore.replayed = << >>

\* The destination lists two primary directories: the Restore replayed
\* nothing.
C19_TwoPrimaries ==
    /\ oRestore.done
    /\ oRestore.error
    /\ Cardinality(PrimariesListed) = 2
    /\ oRestore.replayed = << >>

(***************************************************************************)
(* C20.                                                                    *)
(***************************************************************************)
RECURSIVE ItemsOf(_, _)
\* The items of the index files of the directories of store at the positions
\* listed, one directory after the other.
ItemsOf(store, positions) ==
    IF positions = << >> THEN << >>
    ELSE store[Head(positions)].index \o ItemsOf(store, Tail(positions))

\* The items the Restore replayed, and the positions of the adds among them
\* whose local target existed before the Restore.
ReplayedItems == ItemsOf(oStore, oRestore.replayed)

ExistingAdds ==
    {i \in 1 .. Len(ReplayedItems) :
        /\ ReplayedItems[i].operation = "add"
        /\ ReplayedItems[i].path \in DOMAIN oRestore.before}

\* A Restore that processed its instructions, without dry_run and without
\* overwrite.
ProcessedWithoutOverwrite ==
    /\ oRestore.done
    /\ oRestore.staged
    /\ ~oRestore.dry_run
    /\ ~oRestore.overwrite

\* C20 (as stated): in a Restore without dry_run and without overwrite every
\* local target that exists before the Restore is reported as an error.
C20_EveryExistingReported ==
    ProcessedWithoutOverwrite =>
        \A i \in ExistingAdds : ReplayedItems[i].path \in oRestore.reported

\* C20 (amended): in a Restore without dry_run and without overwrite the first
\* add, in the order of the instructions, whose local target exists before the
\* Restore is reported as an error and ends the processing: the commit actions
\* collected are those of the instructions before it, and no later target is
\* reported.  When no such add exists nothing is reported and every
\* instruction gives a commit action.
C20_FirstExistingReported ==
    ProcessedWithoutOverwrite =>
        IF ExistingAdds = {}
        THEN /\ oRestore.reported = {}
             /\ oRestore.collected = Len(ReplayedItems)
        ELSE \E first \in ExistingAdds :
                /\ \A i \in ExistingAdds : first <= i
                /\ oRestore.reported = {ReplayedItems[first].path}
                /\ oRestore.collected = first - 1
                /\ oRestore.error

\* The target holds a/a and a/b, the primary directory adds both: a/a alone
\* is reported, nothing is collected and the target is left as it was.
C20_Witness ==
    /\ ProcessedWithoutOverwrite
    /\ Cardinality(ExistingAdds) = 2
    /\ oRestore.reported = {<<NameA, NameA>>}
    /\ oRestore.collected = 0
    /\ oRestore.error
    /\ oRestore.target = oRestore.before

\* The target holds a/b, the primary directory adds a/a and a/b: a/b is
\* reported and the commit action collected for a/a has been run.
C20_CommittedAfterError ==
    /\ ProcessedWithoutOverwrite
    /\ oRestore.reported = {<<NameA, NameB>>}
    /\ oRestore.collected = 1
    /\ oRestore.error
    /\ <<NameA, NameA>> \notin DOMAIN oRestore.before
    /\ <<NameA, NameA>> \in DOMAIN oRestore.target

(***************************************************************************)
(* C28.                                                                    *)
(***************************************************************************)
\* Node.__eq__ of the dataclass: the same names below every node, equal hash
\* values (placeholders are equal whatever their flag) and equal sizes.
SnapshotEq(S, T) ==
    /\ DOMAIN S = DOMAIN T
    /\ \A q \in DOMAIN S :
            /\ HashEq(S[q].hash_value, T[q].hash_value)
            /\ S[q].file_size = T[q].file_size

\* C28: the snapshot loaded from the persisted JSON form of a snapshot S is
\* equal to S, the equality disregarding the explicitly_added flag of the
\* placeholders.
C28_RoundTrip == dPhase = "loaded" => SnapshotEq(dOther, dThis)

\* A snapshot with a file and an empty directory below a directory has been
\* persisted and loaded.
C28_Witness ==
    /\ dPhase = "loaded"
    /\ DOMAIN dThis = {<<NameA>>, <<NameA, NameA>>, <<NameA, NameB>>}
    /\ dThis[<<NameA, NameA>>] = FileNode(1)
    /\ dThis[<<NameA, NameB>>] = DirNode(TRUE)
    /\ SnapshotEq(dOther, dThis)

(***************************************************************************)
(* C29.                                                                    *)
(***************************************************************************)
\* The directories of a snapshot.
DirsOf(T) == {q \in DOMAIN T : is_dir(T[q])}

\* C29 (as stated): a loaded directory is explicitly_added exactly when it has
\* no children, so the flag of a directory with children does not survive a
\* persist/load round trip.
C29_FlagDerivedFromChildren ==
    dPhase = "loaded" =>
        \A q \in DirsOf(dOther) :
            dOther[q].hash_value.explicitly_added <=> (ChildNames(dOther, q) = {})

\* C29 (amended): a loaded directory has the explicitly_added flag that was
\* persisted for it, whether or not it has children.
C29_FlagPersisted ==
    dPhase = "loaded" =>
        /\ DirsOf(dOther) = DirsOf(dThis)
        /\ \A q \in DirsOf(dOther) :
                dOther[q].hash_value.explicitly_added
                    = dThis[q].hash_value.explicitly_added

\* A directory added explicitly before a file was added below it has been
\* persisted and loaded: it has a child and its flag is set.
C29_Witness ==
    /\ dPhase = "loaded"
    /\ <<NameA, NameA>> \in DOMAIN dOther
    /\ dThis[<<NameA>>] = DirNode(TRUE)
    /\ dOther[<<NameA>>].hash_value.explicitly_added

(***************************************************************************)
(* C22.                                                                    *)
(***************************************************************************)
\* The paths of the files that are to be added or modified.
FilesToTransfer(fs, ds) ==
    {ds[i].path : i \in {j \in DOMAIN ds : /\ ds[j].operation \in {"add", "modify"}
                                           /\ GetItemType(fs, ds[j].path) = "File"}}

RECURSIVE SummedSize(_, _)
\* The summed size of the files at the given paths.
SummedSize(fs, paths) ==
    IF paths = {} THEN 0
    ELSE LET q == CHOOSE x \in paths : TRUE
         IN SizeOf(fs[q].data) + SummedSize(fs, paths \ {q})

\* The last Backup call got as far as the size check.
SizeCheckReached == mRun.result \in {"started", "no space"}

\* While the Backup that passed the check runs, the figure it showed as
\* required is the summed size of its add and modify files.
RequiredIsSummedSize ==
    (step # "idle" /\ mRun.bytes_available # BytesUnavailable) =>
        mRun.bytes_required = SummedSize(local, FilesToTransfer(local, diffs))

\* C22 (as stated): the size check ends the run exactly when the summed size of
\* the add and modify files exceeds 85% of the available bytes; a run whose
\* required size does not exceed that bound proceeds, and the check is skipped
\* when the available bytes are unavailable.
C22_AbortsWhenExceeding ==
    SizeCheckReached =>
        /\ RequiredIsSummedSize
        /\ (mRun.result = "no space") <=>
               /\ mRun.bytes_available # BytesUnavailable
               /\ 100 * mRun.bytes_required > 85 * mRun.bytes_available

\* C22 (amended): the size check ends the run exactly when the summed size of
\* the add and modify files is at least 85% of the available bytes; a run that
\* requires less proceeds, and the check is skipped when the available bytes
\* are unavailable.
C22_AbortsFromBoundOn ==
    SizeCheckReached =>
        /\ RequiredIsSummedSize
        /\ (mRun.result = "no space") <=>
               /\ mRun.bytes_available # BytesUnavailable
               /\ 100 * mRun.bytes_required >= 85 * mRun.bytes_available

\* A Backup that required exactly 85% of the available bytes was ended by the
\* size check.
C22_Witness ==
    /\ mRun.result = "no space"
    /\ mRun.bytes_required > 0
    /\ 100 * mRun.bytes_required = 85 * mRun.bytes_available

\* A Backup that required less than 85% of the available bytes is running.
C22_Proceeds ==
    /\ mRun.result = "started"
    /\ step = "add"
    /\ mRun.bytes_available = FreeBytes
    /\ mRun.bytes_required > 0

\* A Backup that transfers more than the free bytes is running: the available
\* bytes were unavailable.
C22_Skipped ==
    /\ mRun.result = "started"
    /\ step = "add"
    /\ mRun.bytes_available = BytesUnavailable
    /\ SummedSize(local, FilesToTransfer(local, diffs)) > FreeBytes

(***************************************************************************)
(* C23.                                                                    *)
(***************************************************************************)
\* This step is a call of the mirror Backup.
MirrorBackupStep == step = "idle" /\ runs' = runs + 1

\* This step is a call of Backup whose size check fails: the available bytes
\* are known and 85% of them do not exceed the required bytes.
SizeCheckFailedStep ==
    /\ MirrorBackupStep
    /\ mRun'.result \in {"started", "no space"}
    /\ mRun'.bytes_available # BytesUnavailable
    /\ 100 * mRun'.bytes_required >= 85 * mRun'.bytes_available

\* C23: a Backup whose size check fails returns without a change at the
\* destination: no item is created, renamed or removed, what a previous run
\* left is left, and the persisted snapshot is what it was.
C23_NoMutation ==
    [][SizeCheckFailedStep => (dest' = dest /\ step' = "idle")]_vars

\* The size check ended a Backup into a destination where an interrupted run
\* had left pending items: they are still there.
C23_Witness ==
    /\ mRun.result = "no space"
    /\ step = "idle"
    /\ \E p \in Sidecars(dest) : Len(p) > 1
    /\ CleanupImpl(dest) # dest

(***************************************************************************)
(* C27.                                                                    *)
(***************************************************************************)
\* An input path does not exist.
MissingInput(fs, inputs) == \E i \in DOMAIN inputs : inputs[i] \notin DOMAIN fs

\* An input root is another input root or lies below it.
OverlappingRoots(inputs) ==
    \E i, j \in DOMAIN inputs : i # j /\ IsPrefix(inputs[i], inputs[j])

\* The destination lies below an input directory or below the directory of
\* an input file.
DestinationBelowInput(fs, inputs, destination) ==
    \E i \in DOMAIN inputs :
        \/ GetItemType(fs, inputs[i]) = "Dir" /\ IsPrefix(inputs[i], destination)
        \/ GetItemType(fs, inputs[i]) = "File" /\ IsPrefix(Parent(inputs[i]), destination)

\* This step is a call of Backup with invalid input.
InvalidInputStep ==
    /\ MirrorBackupStep
    /\ \/ MissingInput(local', mRun'.inputs)
       \/ OverlappingRoots(mRun'.inputs)
       \/ DestinationBelowInput(local', mRun'.inputs, mRun'.destination)

C27_MissingInputRejected ==
    /\ mRun.result = "invalid input"
    /\ MissingInput(local, mRun.inputs)
    /\ GetItemType(local, input_dir) = "Dir"
    /\ dest # EmptyFs

\* A Backup into a destination below the input directory was rejected.
C27_DestinationBelowInputRejected ==
    /\ mRun.result = "invalid input"
    /\ mRun.inputs = <<input_dir>>
    /\ DestinationBelowInput(local, mRun.inputs, mRun.destination)
    /\ dest # EmptyFs

(***************************************************************************)
(* C24.                                                                    *)
(***************************************************************************)
\* A Backup that ran to its end, after runs none of which was interrupted or
\* saw a task fail, leaves the destination of SpecTamper's initial states.
CleanRunMirrors ==
    (step = "idle" /\ clean /\ mRun.result = "started") => dest = MirrorOf(local)

\* Such a destination is reached for a local file system with a file below a
\* directory.
CleanRunMirrors_Witness ==
    /\ step = "idle"
    /\ clean
    /\ finalized = 2
    /\ mRun.result = "started"
    /\ <<NameA, NameA, NameA>> \in DOMAIN local
    /\ dest = MirrorOf(local)

\* The persisted snapshot of the destination describes the local file system:
\* the source has not changed since the Backup that wrote it.
SourceUnchanged ==
    /\ IsPersisted(dest)
    /\ dest[<<PERSISTED_FILE_NAME>>].json = ToJson(local_snapshot(local), << >>)

\* The first Backup after a file was deleted behind the mirror's back, called
\* for the unchanged source, unless it is a run with force that starts.
UnforcedAfterDeletion ==
    /\ MirrorBackupStep
    /\ runs = 0
    /\ tampered.op = "delete"
    /\ local' = local
    /\ ~(step' = "snapshot" /\ force')

\* A run with force, started after a file was deleted behind the mirror's
\* back, renames its snapshot to BackupSnapshot.json.
ForcedAfterDeletionEnds ==
    /\ step = "finalize"
    /\ force
    /\ tampered.op = "delete"
    /\ finalized' = finalized + 1

\* C24: after a file was deleted from Content behind the mirror's back, a
\* Backup without force for the unchanged source changes nothing at the
\* destination, the file stays missing; a Backup with force ends with the
\* destination holding what a Backup of the source into an empty destination
\* leaves.
C24_DeletionKeptUntilForced ==
    [][/\ UnforcedAfterDeletion =>
            (dest' = dest /\ step' = "idle" /\ tampered.path \notin DOMAIN dest')
       /\ ForcedAfterDeletionEnds => dest' = MirrorOf(local)
      ]_vars

\* After the deletion a Backup returned without a diff, and the Backup with
\* force that followed it for the unchanged source has restored the file: the
\* rename of its snapshot is what is left to do.
C24_Witness ==
    /\ tampered.op = "delete"
    /\ runs = 2
    /\ finalized = 0
    /\ step = "finalize"
    /\ force
    /\ SourceUnchanged
    /\ tampered.path \in DOMAIN dest
    /\ ContentOf(dest) = ContentOf(MirrorOf(local))

\* After the deletion a Backup without force returned for the unchanged
\* source: the file is missing.
C24_StillMissing ==
    /\ tampered.op = "delete"
    /\ runs = 1
    /\ step = "idle"
    /\ mRun.result = "no diffs"
    /\ SourceUnchanged
    /\ tampered.path \notin DOMAIN dest

(***************************************************************************)
(* C25.                                                                    *)
(***************************************************************************)
\* C25: a Validate of a destination in which one mirrored file was rewritten
\* with other bytes of the same length reports no difference in standard
\* mode; in complete mode it reports one difference, a modify of that file
\* with equal sizes and different hashes.
C25_SameSizeRewrite ==
    (validated.done /\ tampered.op = "rewrite" /\ runs = 0) =>
        IF validated.complete
        THEN /\ Len(validated.diffs) = 1
             /\ validated.diffs[1].operation = "modify"
             /\ validated.diffs[1].path = tampered.path
             /\ validated.diffs[1].this_file_size = validated.diffs[1].other_file_size
             /\ validated.diffs[1].this_hash.k = "str"
             /\ validated.diffs[1].other_hash.k = "str"
             /\ validated.diffs[1].this_hash.v # validated.diffs[1].other_hash.v
        ELSE validated.diffs = << >>

\* A complete Validate after a file below a directory of Content was
\* rewritten.
C25_Witness ==
    /\ validated.done
    /\ validated.complete
    /\ tampered.op = "rewrite"
    /\ runs = 0
    /\ Len(tampered.path) > 2
    /\ Len(validated.diffs) = 1

\* A standard Validate after a file was rewritten.
C25_StandardSilent ==
    /\ validated.done
    /\ ~validated.complete
    /\ tampered.op = "rewrite"
    /\ runs = 0
    /\ validated.diffs = << >>

(***************************************************************************)
(* C30.                                                                    *)
(***************************************************************************)
\* The items below Content.
BelowContent(fs) == {p \in DOMAIN fs : IsPrefix(<<CONTENT_DIR_NAME>>, p) /\ Len(p) > 1}

\* The content tree of the destination is the tree its BackupSnapshot.json
\* describes: a complete comparison finds no difference. A destination
\* without BackupSnapshot.json holds nothing below Content.
ContentAsPersisted(fs) ==
    IF IsPersisted(fs)
    THEN ValidateDiffs(fs, TRUE) = << >>
    ELSE BelowContent(fs) = {}

\* C30 (as stated): whenever no Backup is running, wherever the earlier runs
\* were interrupted, a Cleanup leaves a content tree that is the tree
\* described by BackupSnapshot.json.
C30_CleanupRestoresSnapshotState ==
    step = "idle" => ContentAsPersisted(CleanupImpl(dest))

\* The files below Content: their paths below Content and their digests.
FilesOfContent(fs) == {<<Tail(p), HashOf(fs[p].data)>> : p \in MirroredFiles(fs)}

\* The files BackupSnapshot.json lists: their paths and their digests.
FilesOfSnapshot(fs) ==
    IF IsPersisted(fs)
    THEN LET T == FromJson(fs[<<PERSISTED_FILE_NAME>>].json)
         IN {<<q, T[q].hash_value.v>> : q \in {r \in DOMAIN T : is_file(T[r])}}
    ELSE {}

\* The steps of a run before "Committing added content..." starts.
BeforeCommit == {"snapshot", "pending", "remove", "add"}

\* A step that neither belongs to the two commit loops nor renames the
\* snapshot: it starts a run or is taken before the commit of added content
\* starts, or it is taken while no Backup runs.
StepBeforeCommit ==
    step \in BeforeCommit \cup {"idle"} /\ step' \in BeforeCommit \cup {"idle"}

\* Up to the commit of added content, a Cleanup undoes what a run has done
\* to the files, whether its tasks failed or it was interrupted: if a Cleanup
\* before the step leaves the files BackupSnapshot.json lists, so does a
\* Cleanup after it. Directories made for the parents of pending items stay.
FilesRecoverableBeforeCommit ==
    [][(/\ StepBeforeCommit
        /\ FilesOfContent(CleanupImpl(dest)) = FilesOfSnapshot(CleanupImpl(dest)))
            => FilesOfContent(CleanupImpl(dest')) = FilesOfSnapshot(CleanupImpl(dest'))]_vars

\* An interrupted run made Content/a for a pending item below it: after a
\* Cleanup the directory is there and no snapshot lists it.
DirectoryLeftByCleanup ==
    /\ step = "idle"
    /\ ~IsPersisted(dest)
    /\ Sidecars(CleanupImpl(dest)) = {}
    /\ GetItemType(CleanupImpl(dest), <<CONTENT_DIR_NAME, NameA>>) = "Dir"
    /\ MirroredFiles(CleanupImpl(dest)) = {}

\* A run that had committed an added file was interrupted before its snapshot
\* was renamed: after a Cleanup the file is in Content and BackupSnapshot.json
\* does not list it.
C30_MixtureAfterCleanup ==
    /\ step = "idle"
    /\ IsPersisted(dest)
    /\ Sidecars(CleanupImpl(dest)) = {}
    /\ \E f \in FilesOfContent(CleanupImpl(dest)) :
            \A g \in FilesOfSnapshot(CleanupImpl(dest)) : g[1] # f[1]
    /\ \E f \in FilesOfContent(CleanupImpl(dest)) : f \in FilesOfSnapshot(CleanupImpl(dest))

(***************************************************************************)
(* C26: what the sources decide of it. Which tasks ExecuteTasks.Transform  *)
(* starts after a task has failed is not decided by them.                  *)
(***************************************************************************)
\* After a task of the marking or of the transfer has failed, the run starts
\* no other phase: it stays in the phase until Transform returns, and then
\* returns; nothing is committed and the snapshot is not renamed.
NoPhaseAfterFailure ==
    [][(error /\ step \in {"remove", "add"}) =>
            /\ step' \in {step, "idle"}
            /\ ~CommitRenamed
            /\ IsPersisted(dest') = IsPersisted(dest)
            /\ IsPersisted(dest) =>
                    dest'[<<PERSISTED_FILE_NAME>>] = dest[<<PERSISTED_FILE_NAME>>]]_vars

\* The marking of a second run has renamed an item, a task of its transfer
\* has failed and the run has returned: pending items are at the destination
\* and a Cleanup removes or restores every one of them.
FailureLeftPending ==
    /\ step = "idle"
    /\ ~clean
    /\ runs = 2
    /\ finalized = 1
    /\ \E p \in Sidecars(dest) : Len(p) > 1 /\ suffix(p) = PENDING_DELETE_EXTENSION
    /\ \E p \in Sidecars(dest) : Len(p) > 1 /\ suffix(p) = PENDING_COMMIT_EXTENSION
    /\ Sidecars(CleanupImpl(dest)) = {}
    /\ Restored(dest, CleanupImpl(dest))
    /\ FilesOfContent(CleanupImpl(dest)) = FilesOfSnapshot(CleanupImpl(dest))

(***************************************************************************)
(* C21.                                                                    *)
(***************************************************************************)
\* The directories a Restore reads: the primary directory and those after it.
FromPrimary(store) ==
    {i \in 1 .. Len(store) : \E j \in 1 .. i : store[j].primary}

\* The integrity errors, read from the directories at the destination.
IndexHashMismatch(store) ==
    \E i \in FromPrimary(store) : store[i].index_hash # IndexHash(store[i].index)

PoolHashMismatch(store) ==
    \E i \in FromPrimary(store) : \E h \in DOMAIN store[i].pool :
        HashOf(store[i].pool[h]) # h

UnrecognizedName(store) == \E i \in 1 .. Len(store) : ~store[i].recognized

MissingPrimary(store) == \A i \in 1 .. Len(store) : ~store[i].primary

MultiplePrimaries(store) ==
    \E i, j \in 1 .. Len(store) : i # j /\ store[i].primary /\ store[j].primary

IntegrityError(store) ==
    \/ IndexHashMismatch(store)
    \/ PoolHashMismatch(store)
    \/ UnrecognizedName(store)
    \/ MissingPrimary(store)
    \/ MultiplePrimaries(store)

\* C21: a Restore of a destination with an integrity error (index hash
\* mismatch, pool file hash mismatch, unrecognized directory name, missing
\* primary directory, multiple primaries) ends with an error before any
\* instruction is processed and any commit action is run: the local target
\* is as it was.
C21_AbortsBeforeCommit ==
    (oRestore.done /\ IntegrityError(oStore)) =>
        /\ oRestore.error
        /\ ~oRestore.staged
        /\ oRestore.collected = 0
        /\ oRestore.target = oRestore.before

\* A file of the pool of the only directory was rewritten and the directory
\* restored onto an empty target: an error, and the target is still empty.
C21_Witness ==
    /\ oRestore.done
    /\ ~oRestore.dry_run
    /\ oRestore.before = EmptyFs
    /\ damaged = [op |-> "pool", directory |-> 1]
    /\ Len(oStore) = 1
    /\ PoolHashMismatch(oStore)
    /\ oRestore.error
    /\ oRestore.target = EmptyFs

\* The same for an index that lost an instruction, in the directory after the
\* primary one.
C21_IndexMismatch ==
    /\ oRestore.done
    /\ ~oRestore.dry_run
    /\ damaged = [op |-> "index", directory |-> 2]
    /\ Len(oStore) = 2
    /\ IndexHashMismatch(oStore)
    /\ ~PoolHashMismatch(oStore)
    /\ ~MultiplePrimaries(oStore)
    /\ oRestore.error
    /\ oRestore.target = oRestore.before

\* The same for a directory with another name.
C21_UnrecognizedName ==
    /\ oRestore.done
    /\ ~oRestore.dry_run
    /\ damaged.op = "name"
    /\ UnrecognizedName(oStore)
    /\ ~MultiplePrimaries(oStore)
    /\ ~MissingPrimary(oStore)
    /\ oRestore.error
    /\ oRestore.target = oRestore.before

\* The same for a primary directory that was removed, the directory after it
\* being left.
C21_MissingPrimary ==
    /\ oRestore.done
    /\ ~oRestore.dry_run
    /\ damaged.op = "primary"
    /\ oStore # << >>
    /\ MissingPrimary(oStore)
    /\ oRestore.error
    /\ oRestore.target = oRestore.before

\* The same for two primary directories, nothing having been changed.
C21_MultiplePrimaries ==
    /\ oRestore.done
    /\ ~oRestore.dry_run
    /\ damaged = NotDamaged
    /\ MultiplePrimaries(oStore)
    /\ oRestore.error
    /\ oRestore.target = oRestore.before

\* The directories that make C21_Witness are restored when nothing was
\* changed: the target is written.
C21_RestoredWhenIntact ==
    /\ oRestore.done
    /\ ~oRestore.dry_run
    /\ oRestore.before = EmptyFs
    /\ damaged = NotDamaged
    /\ Len(oStore) = 1
    /\ ~IntegrityError(oStore)
    /\ ~oRestore.error
    /\ oRestore.target # EmptyFs

(***************************************************************************)
(* C31.                                                                    *)
(***************************************************************************)
\* The Backup that has ended is the run, without force and on the same local
\* file system, that followed an interrupted run; before the interrupted run
\* the destination was empty or a mirror (every run before it ran to its end).
RerunEnded == step = "idle" /\ mRun.rerun /\ mRun.ended = "done"

\* The content tree and the snapshot of a destination, read item by item.
MirrorsLocal ==
    /\ IsPersisted(dest)
    /\ FromJson(dest[<<PERSISTED_FILE_NAME>>].json) = local_snapshot(local)
    /\ DOMAIN dest =
            {<<PERSISTED_FILE_NAME>>, <<CONTENT_DIR_NAME>>}
                \cup {<<CONTENT_DIR_NAME>> \o q : q \in DOMAIN local}
    /\ \A q \in DOMAIN local : dest[<<CONTENT_DIR_NAME>> \o q] = local[q]

C31_AlreadyRemoved ==
    /\ mRun.rerun
    /\ step = "remove"
    /\ \E path \in todo :
        /\ GetItemType(dest, <<CONTENT_DIR_NAME>> \o path) = "None"
        /\ GetItemType(dest, create_destination_path_func(path, PENDING_DELETE_EXTENSION)) = "None"

\* The re-run adds an item the interrupted run has committed already.
C31_AlreadyCommitted ==
    /\ mRun.rerun
    /\ step = "add"
    /\ \E i \in DOMAIN diffs :
        /\ diffs[i].operation = "add"
        /\ diffs[i].path \in todo
        /\ GetItemType(dest, <<CONTENT_DIR_NAME>> \o diffs[i].path) = "File"

(***************************************************************************)
(* C32.                                                                    *)
(***************************************************************************)
\* p is a directory of both snapshots (the root is one).
DirectoryPair(p) ==
    \/ p = << >>
    \/ /\ p \in DOMAIN dThis /\ is_dir(dThis[p])
       /\ p \in DOMAIN dOther /\ is_dir(dOther[p])

\* The files this holds below p: each of them is unchanged, added or modified.
SurvivingFiles(p) ==
    {q \in DOMAIN dThis : is_file(dThis[q]) /\ IsPrefix(p, q) /\ q # p}

\* The directories replaced by one remove record.
CollapsedDirectories ==
    {dDiffs[i].path : i \in {j \in DOMAIN dDiffs :
        dDiffs[j].operation = "remove" /\ DirectoryPair(dDiffs[j].path)}}

\* C32 (as stated): a directory is replaced by a single remove record only if
\* this holds nothing that survives below it: a directory with an unchanged,
\* added or modified file below it is never collapsed, in whatever order its
\* children are visited.
C32_SurvivorPreventsCollapse ==
    dPhase # "init" => \A p \in CollapsedDirectories : SurvivingFiles(p) = {}

\* The same statement over the trees whose childless directories are all
\* explicitly added.
C32_OnBuiltTrees ==
    (EmptyDirsExplicit(dThis) /\ EmptyDirsExplicit(dOther)) =>
        C32_SurvivorPreventsCollapse

\* The same statement when a child that this does not hold is removed at the
\* level of the directory: the remove comes before every child of this is
\* visited.
C32_RemoveVisitedFirst ==
    dPhase # "init" =>
        \A p \in CollapsedDirectories :
            (\E c \in ChildNames(dOther, p) : c \notin ChildNames(dThis, p))
                => SurvivingFiles(p) = {}

\* The unchanged file a/b is visited before the directory a/a, whose only
\* child is removed: the root is replaced by one remove record.
C32_UnchangedVisitedFirst ==
    /\ dPhase = "hashes"
    /\ dOrder = <<NameB, NameA>>
    /\ <<NameA, NameB>> \in DOMAIN dThis
    /\ <<NameA, NameB>> \in DOMAIN dOther
    /\ dThis[<<NameA, NameB>>] = FileNode(1)
    /\ dOther[<<NameA, NameB>>] = FileNode(1)
    /\ <<NameA, NameA, NameA>> \in DOMAIN dOther
    /\ <<NameA, NameA, NameA>> \notin DOMAIN dThis
    /\ Len(dDiffs) = 1
    /\ dDiffs[1].operation = "remove"
    /\ Len(dDiffs[1].path) < 2

(***************************************************************************)
(* C33.                                                                    *)
(***************************************************************************)
\* "Processing instructions..." reported an error: a local item exists and is
\* not overwritten.
InstructionsReportedError ==
    /\ oRestore.done
    /\ oRestore.staged
    /\ ~oRestore.dry_run
    /\ oRestore.reported # {}

\* C33 (as stated): when the processing of the instructions reports an error,
\* none of the commit actions collected so far is run and the local target is
\* left as it was before the Restore.
C33_ErrorCommitsNothing ==
    InstructionsReportedError => oRestore.target = oRestore.before

\* The error is reported for the first instruction: no commit action was
\* collected, and the target is as it was.
C33_NothingCollected ==
    (InstructionsReportedError /\ oRestore.collected = 0) =>
        oRestore.target = oRestore.before

\* Commit actions were collected before the error was reported: they were
\* run, the target holds what they wrote.
C33_CollectedAreRun ==
    /\ InstructionsReportedError
    /\ oRestore.collected > 0
    /\ oRestore.target # oRestore.before
    /\ \E p \in DOMAIN oRestore.target : p \notin DOMAIN oRestore.before

(***************************************************************************)
(* C34.                                                                    *)
(***************************************************************************)
\* Every run that recorded changes so far wrote to the destination: nothing
\* was left in the working directory and no snapshot waits for a Commit.
AllRunsToDestination ==
    /\ oStore # << >>
    /\ oWorking = << >>
    /\ ~oPending.present
    /\ damaged = NotDamaged

\* C34 (as stated): after any sequence of successful Backup runs to the same
\* destination, runs with force included, the destination lists exactly one
\* primary directory.
C34_OnePrimaryAfterBackups ==
    AllRunsToDestination => Cardinality(PrimariesListed) = 1

\* A run without force that follows runs to the destination adds a ".delta"
\* directory: the number of primary directories stays at one.
C34_UnforcedKeepsOnePrimary ==
    [][(/\ AllRunsToDestination
        /\ Cardinality(PrimariesListed) = 1
        /\ BackupStep
        /\ oRun'.result = "ok"
        /\ oRun'.destination
        /\ ~oRun'.force) =>
            /\ Len(oStore') = Len(oStore) + 1
            /\ ~oStore'[Len(oStore')].primary
            /\ Cardinality({i \in 1 .. Len(oStore') : oStore'[i].primary}) = 1
      ]_vars

\* Two runs to the destination, the second one forced: two primary
\* directories are listed and the Restore that follows reports an error.
C34_ForcedAddsPrimary ==
    /\ AllRunsToDestination
    /\ oRun.op = "Backup"
    /\ oRun.force
    /\ Cardinality(PrimariesListed) = 2
    /\ oRestore.done
    /\ oRestore.error
    /\ oRestore.target = oRestore.before

\* Two runs to the destination without force: a primary directory and a
\* ".delta" one, and the Restore replays both.
C34_UnforcedRestored ==
    /\ AllRunsToDestination
    /\ Len(oStore) = 2
    /\ Cardinality(PrimariesListed) = 1
    /\ oRestore.done
    /\ ~oRestore.error
    /\ oRestore.replayed = <<1, 2>>

(***************************************************************************)
(* C35.                                                                    *)
(***************************************************************************)
\* The step ends a Backup run that was transferring with the result given.
TransferEnds(result) ==
    /\ oRun.op = "Backup"
    /\ oRun.result = "running"
    /\ oRun'.result = result

\* C35: in a Backup to a file-based destination the standard snapshot is
\* replaced only when every file of the dated directory was transferred and
\* has lost its pending-commit suffix at the destination; when the transfer
\* or the commit reports an error the standard snapshot stays as it was, and
\* a run of the same arguments computes the changes of the failed run again.
C35_SnapshotAfterCommit ==
    [][/\ (oSnapshot' # oSnapshot \/ TransferEnds("ok")) =>
            /\ TransferEnds("ok")
            /\ oTransfer.phase = "commit"
            /\ oTransfer.committed = oTransfer.files
            /\ oTransfer.pending = {}
            /\ oTransfer.failed = {}
            /\ oSnapshot' = Persisted(oLocal)
            /\ Len(oStore') = Len(oStore) + 1
       /\ (TransferEnds("transfer failed") \/ TransferEnds("commit failed")) =>
            /\ oTransfer.failed # {}
            /\ oSnapshot' = oSnapshot
            /\ oStore' = oStore
            /\ OffsiteDiffs(oLocal', oSnapshot', oRun'.force) = oTransfer.diffs
            /\ oTransfer.diffs # << >>
      ]_vars

\* The second run ended with an error in the commit phase: the standard
\* snapshot is the one of the first run and differs from the local state.
C35_Witness ==
    /\ oRun.op = "Backup"
    /\ oRun.result = "commit failed"
    /\ ~oRun.force
    /\ Len(oStore) = 1
    /\ oSnapshot = Persisted(oProduced)
    /\ oSnapshot # Persisted(oLocal)
    /\ OffsiteDiffs(oLocal, oSnapshot, FALSE) = oTransfer.diffs

\* The commit phase of a run: a file lost its pending-commit suffix, the
\* Rename of another one raised.
C35_PartlyCommitted ==
    /\ oTransfer.phase = "commit"
    /\ oTransfer.committed # {}
    /\ oTransfer.failed # {}
    /\ oTransfer.committed \cup oTransfer.pending = oTransfer.files

\* The first run ended with an error while transferring: no standard
\* snapshot exists and nothing is listed as transferred.
C35_TransferFailed ==
    /\ oRun.result = "transfer failed"
    /\ ~oSnapshot.present
    /\ oStore = << >>

\* The second run ended well: the standard snapshot is the one of the local
\* state and two dated directories are listed.
C35_Committed ==
    /\ oRun.result = "ok"
    /\ oTransfer.phase = "idle"
    /\ Len(oStore) = 2
    /\ ~oStore[2].primary
    /\ oSnapshot = Persisted(oLocal)


(***************************************************************************)
(* C36.                                                                    *)
(***************************************************************************)
\* A snapshot file exists for the backup name, the standard or the pending
\* one.
SomeSnapshot(standard, pending) == standard.present \/ pending.present

\* The step is one of a Commit that found a pending snapshot.
CommitProgress == oCommit # "idle" \/ oCommit' # "idle"

\* C36: after every statement of a Commit, and when the process ends between
\* two of them, the standard or the pending snapshot file exists.
C36_CommitKeepsASnapshot ==
    [][CommitProgress =>
            /\ SomeSnapshot(oSnapshot, oPending)
            /\ SomeSnapshot(oSnapshot', oPending')
            /\ oCommit' = "removed" => (oPending' = oPending /\ oPending'.present)
            /\ oRun'.result = "ok" => (oSnapshot' = oPending /\ ~oPending'.present)
            /\ oRun'.result = "interrupted" => (oPending' = oPending /\ oPending'.present)
      ]_vars

\* The Commit ended after the standard snapshot of an earlier run was
\* removed: the pending snapshot is the only one.
C36_Witness ==
    /\ oRun.op = "Commit"
    /\ oRun.result = "interrupted"
    /\ oCommit = "idle"
    /\ Len(oStore) = 1
    /\ Len(oWorking) = 1
    /\ ~oSnapshot.present
    /\ oPending.present

\* The Commit run again after that ended well: the pending snapshot became
\* the standard one.
C36_Completed ==
    /\ oRun.op = "Commit"
    /\ oRun.result = "ok"
    /\ Len(oStore) = 1
    /\ Len(oWorking) = 1
    /\ oSnapshot = Persisted(oLocal)
    /\ ~oPending.present

(***************************************************************************)
(* C37.                                                                    *)
(***************************************************************************)
\* The pending-delete items of fs that Cleanup restores: those that are not
\* below a pending-commit or another pending-delete item.
RestoredSidecars(fs) ==
    {p \in DOMAIN fs :
        /\ suffix(p) = PENDING_DELETE_EXTENSION
        /\ \A q \in Prefixes(p) \ {p} :
                suffix(q) \notin {PENDING_COMMIT_EXTENSION, PENDING_DELETE_EXTENSION}}

\* The item q, at or below the pending-delete item p of before, is in fs
\* under the name it has in before or under its original name.
OriginalKept(before, fs, p, q) ==
    LET original == with_suffix(p) \o SubSeq(q, Len(p) + 1, Len(q)) IN
    \/ q \in DOMAIN fs /\ fs[q] = before[q] /\ p \in DOMAIN fs
    \/ original \in DOMAIN fs /\ fs[original] = before[q] /\ p \notin DOMAIN fs

\* Every item at or below a pending-delete item of before is in fs.
NoOriginalLost(before, fs) ==
    \A p \in RestoredSidecars(before) : \A q \in DOMAIN before :
        IsPrefix(p, q) => OriginalKept(before, fs, p, q)

\* C37: a Cleanup interrupted at any point and then run to its end leaves the
\* destination as one uninterrupted Cleanup of the same destination leaves
\* it; at the interruption and after the second run every item that was kept
\* under a pending-delete name is there, under that name or under its
\* original one, and after the second run under its original one.
C37_RerunEqualsUninterrupted ==
    /\ cleaned.phase = "interrupted" =>
            /\ dest = cleaned.left
            /\ NoOriginalLost(cleaned.before, dest)
    /\ cleaned.phase = "again" =>
            /\ dest = CleanupImpl(cleaned.before)
            /\ NoOriginalLost(cleaned.before, dest)
            /\ \A p \in RestoredSidecars(cleaned.before) : p \notin DOMAIN dest

\* The Cleanup was interrupted between the removal of the item at the
\* original name and the move of the pending-delete item; the second run
\* put the item kept under the pending-delete name at the original name.
C37_Witness ==
    /\ cleaned.phase = "again"
    /\ \E p \in RestoredSidecars(cleaned.before) :
        /\ with_suffix(p) \in DOMAIN cleaned.before
        /\ cleaned.before[with_suffix(p)] # cleaned.before[p]
        /\ p \in DOMAIN cleaned.left
        /\ with_suffix(p) \notin DOMAIN cleaned.left
        /\ with_suffix(p) \in DOMAIN dest
        /\ dest[with_suffix(p)] = cleaned.before[p]
        /\ p \notin DOMAIN dest

\* The Cleanup was interrupted while it removed the directory at the original
\* name: a part of it is gone, the directory itself and the pending-delete
\* item are there.
C37_PartlyRemoved ==
    /\ cleaned.phase = "interrupted"
    /\ \E p \in RestoredSidecars(cleaned.before) :
        /\ p \in DOMAIN dest
        /\ with_suffix(p) \in DOMAIN dest
        /\ \E q \in DOMAIN cleaned.before \ DOMAIN dest : IsPrefix(with_suffix(p), q)

\* The Cleanup was interrupted after it removed one pending-commit item and
\* before it removed another one.
C37_BetweenItems ==
    /\ cleaned.phase = "interrupted"
    /\ \E p \in DOMAIN cleaned.before \ DOMAIN dest :
            suffix(p) = PENDING_COMMIT_EXTENSION
    /\ \E p \in DOMAIN dest : suffix(p) = PENDING_COMMIT_EXTENSION

(***************************************************************************)
(* C38.                                                                    *)
(***************************************************************************)
\* The name has the part "__temp__": WriteFile made it for the file it
\* streams to.
IsTemporaryName(p) == \E i \in 1 .. Len(name(p)) : name(p)[i] = "__temp__"

\* The files of fs that hold a part of their content only.
PartialFiles(fs) == {p \in DOMAIN fs : fs[p] = FileItem(PartialContent)}

\* C38: a file with a part of its content has a ".__temp__" name; an item
\* under the pending-commit name of a local file holds the whole content of
\* that file while the run lasts, the names the add tasks return are
\* pending-commit names of such items, and no item under a committed name is
\* partial, whether the write ended, failed or was interrupted.
C38_CompleteBeforePendingName ==
    /\ \A p \in PartialFiles(dest) :
            /\ IsTemporaryName(p)
            /\ p \notin pending_commit_items
    /\ step # "idle" =>
            \A path \in DOMAIN local :
                LET dest_filename == create_destination_path_func(path, PENDING_COMMIT_EXTENSION)
                IN (local[path].type = "File" /\ dest_filename \in DOMAIN dest) =>
                        dest[dest_filename] = FileItem(local[path].data)
    /\ \A dest_filename \in pending_commit_items : ~IsTemporaryName(dest_filename)

\* A write failed and the run returned: the file with a part of the content
\* is there under its ".__temp__" name, nothing is there under the
\* pending-commit name or the committed name of the item.
C38_Witness ==
    /\ step = "idle"
    /\ mRun.ended = "failed"
    /\ \E path \in DOMAIN local :
        LET dest_filename == create_destination_path_func(path, PENDING_COMMIT_EXTENSION)
        IN /\ local[path].type = "File"
           /\ dest_filename \notin DOMAIN dest
           /\ with_suffix(dest_filename) \notin DOMAIN dest
           /\ \E p \in PartialFiles(dest) :
                /\ Parent(p) = Parent(dest_filename)
                /\ stem(p) = Append(stem(dest_filename), "__temp__")
                /\ suffix(p) = PENDING_COMMIT_EXTENSION

\* The run was interrupted while a file was streamed: the same, with another
\* item already under its pending-commit name.
C38_InterruptedWrite ==
    /\ step = "idle"
    /\ mRun.ended = "interrupted"
    /\ PartialFiles(dest) # {}
    /\ \E p \in DOMAIN dest :
        /\ suffix(p) = PENDING_COMMIT_EXTENSION
        /\ ~IsTemporaryName(p)
        /\ dest[p].type = "File"
        /\ dest[p].json = NoJson

\* The run ended well: the items written are under their committed names
\* with the content of the local files.
C38_WrittenAndCommitted ==
    /\ step = "idle"
    /\ mRun.ended = "done"
    /\ PartialFiles(dest) = {}
    /\ \E path \in DOMAIN local :
        /\ local[path].type = "File"
        /\ with_suffix(create_destination_path_func(path, PENDING_COMMIT_EXTENSION))
                \in DOMAIN dest
        /\ dest[with_suffix(create_destination_path_func(path, PENDING_COMMIT_EXTENSION))]
                = FileItem(local[path].data)

(***************************************************************************)
(* C39.                                                                    *)
(***************************************************************************)
\* The paths both snapshots hold, a file on one side and a directory on the
\* other.
TypeChanges ==
    {p \in DOMAIN dThis \cap DOMAIN dOther : is_file(dThis[p]) # is_file(dOther[p])}

\* The leaves of this at and below p: the files and the childless
\* directories.
LeavesBelow(p) ==
    {q \in DOMAIN dThis :
        /\ IsPrefix(p, q)
        /\ is_file(dThis[q]) \/ ChildNames(dThis, q) = {}}

\* The list holds at i the remove of other's node at p and, right after it,
\* one add record for every leaf of this at and below p, and no other record
\* for a path at or below p.
RemoveThenAdds(p, i) ==
    LET last == i + Cardinality(LeavesBelow(p)) IN
    /\ i \in DOMAIN dDiffs
    /\ dDiffs[i] = DiffResult("remove", p, None, NoSize,
                              dOther[p].hash_value, dOther[p].file_size)
    /\ last <= Len(dDiffs)
    /\ \A q \in LeavesBelow(p) : \E j \in (i + 1) .. last :
            dDiffs[j] = DiffResult("add", q, dThis[q].hash_value, dThis[q].file_size,
                                   None, NoSize)
    /\ \A j \in DOMAIN dDiffs :
            IsPrefix(p, dDiffs[j].path) => j \in i .. last

\* C39: for a path that is a file in one snapshot and a directory in the
\* other, the list of diffs holds the remove of other's node and, after it,
\* the adds of this side's node (its leaves, or the node itself when it is a
\* file or a childless directory); the summary CreateDiffs returns for the
\* path is modify, and no directory above it is replaced by a remove.
C39_TypeChangeRemoveThenAdds ==
    dPhase # "init" =>
        \A p \in TypeChanges :
            /\ \E i \in DOMAIN dDiffs : RemoveThenAdds(p, i)
            /\ CreateDiffs(dThis, dOther, p, dPhase = "hashes", dOrder).result = "modify"
            /\ \A j \in DOMAIN dDiffs :
                    (IsPrefix(dDiffs[j].path, p) /\ dDiffs[j].path # p) =>
                        dDiffs[j].operation # "remove"

\* The file a of other is the directory a of this, which holds the files a/a
\* and a/b: the list is the remove of a and the adds of a/a and a/b.
C39_Witness ==
    /\ dPhase = "hashes"
    /\ <<NameA>> \in TypeChanges
    /\ is_file(dOther[<<NameA>>])
    /\ <<NameA, NameA>> \in DOMAIN dThis /\ is_file(dThis[<<NameA, NameA>>])
    /\ <<NameA, NameB>> \in DOMAIN dThis /\ is_file(dThis[<<NameA, NameB>>])
    /\ Len(dDiffs) = 3
    /\ dDiffs[1].operation = "remove" /\ dDiffs[1].path = <<NameA>>
    /\ dDiffs[2].operation = "add"
    /\ dDiffs[3].operation = "add"
    /\ {dDiffs[2].path, dDiffs[3].path} = {<<NameA, NameA>>, <<NameA, NameB>>}

\* The directory a of other, which holds a file, is the file a of this: the
\* list is the remove of a with the hash of the directory and the add of a.
C39_DirectoryToFile ==
    /\ dPhase = "hashes"
    /\ <<NameA>> \in TypeChanges
    /\ is_file(dThis[<<NameA>>])
    /\ <<NameA, NameA>> \in DOMAIN dOther
    /\ Len(dDiffs) = 2
    /\ dDiffs[1].operation = "remove" /\ dDiffs[1].path = <<NameA>>
    /\ dDiffs[1].other_hash = dOther[<<NameA>>].hash_value
    /\ dDiffs[2].operation = "add" /\ dDiffs[2].path = <<NameA>>
    /\ dDiffs[2].this_hash = dThis[<<NameA>>].hash_value

\* The type changes below a directory that loses its other child: the
\* directory is not replaced by a remove.
C39_BesideRemovedChild ==
    /\ dPhase = "hashes"
    /\ <<NameA, NameA>> \in TypeChanges
    /\ <<NameA, NameB>> \in DOMAIN dOther
    /\ <<NameA, NameB>> \notin DOMAIN dThis
    /\ \E i, j \in DOMAIN dDiffs :
        /\ dDiffs[i].operation = "remove" /\ dDiffs[i].path = <<NameA, NameB>>
        /\ dDiffs[j].operation = "remove" /\ dDiffs[j].path = <<NameA, NameA>>

(***************************************************************************)
(* C40.                                                                    *)
(***************************************************************************)
\* The record k of the index of the i-th directory the Restore replayed.
ReplayedItem(i, k) == oStore[oRestore.replayed[i]].index[k]

\* The positions of the records of the replay set, in the order they are
\* read.
ReplayedPositions ==
    UNION {{<<i, k>> : k \in DOMAIN oStore[oRestore.replayed[i]].index} :
                i \in DOMAIN oRestore.replayed}

\* The hashes the add and modify records read before the position ik
\* introduced.
IntroducedBefore(ik) ==
    {ReplayedItem(jl[1], jl[2]).this_hash.v :
        jl \in {jl \in ReplayedPositions :
                    /\ jl[1] < ik[1] \/ (jl[1] = ik[1] /\ jl[2] < ik[2])
                    /\ ReplayedItem(jl[1], jl[2]).operation \in {"add", "modify"}
                    /\ ReplayedItem(jl[1], jl[2]).this_hash # None}}

\* The modify records of the replay set whose other_hash no earlier record
\* introduced.
UnknownModifies ==
    {ik \in ReplayedPositions :
        /\ ReplayedItem(ik[1], ik[2]).operation = "modify"
        /\ ReplayedItem(ik[1], ik[2]).other_hash.v \notin IntroducedBefore(ik)}

\* C40: when the replay set of a Restore holds a modify record whose
\* other_hash no earlier add or modify record of the set introduced, the
\* Restore fails while staging: no instruction is processed, no commit action
\* is collected or run, the target is as it was.  A Restore that processed
\* its instructions had every modify record's other_hash introduced before.
C40_UnknownModifyFailsStaging ==
    (oRestore.done /\ UnknownModifies # {}) =>
        /\ oRestore.error
        /\ ~oRestore.staged
        /\ oRestore.collected = 0
        /\ oRestore.reported = {}
        /\ oRestore.target = oRestore.before

\* A Restore, not a dry run, of a primary directory and a delta directory
\* that verify, onto a target that holds items: the delta modifies a file
\* whose former content no replayed directory holds, the Restore failed and
\* the target is as it was.
C40_Witness ==
    /\ oRestore.done
    /\ ~oRestore.dry_run
    /\ Len(oRestore.replayed) = 2
    /\ \A i \in 1 .. 2 : VerifyRestoredFiles(oStore[oRestore.replayed[i]])
    /\ UnknownModifies # {}
    /\ \A ik \in UnknownModifies : ik[1] = 2
    /\ oRestore.error
    /\ ~oRestore.staged
    /\ oRestore.before # EmptyFs
    /\ oRestore.target = oRestore.before

\* The Restore of a primary directory and a delta directory whose modify
\* record names a content the primary introduced: the instructions were
\* processed and the file was overwritten.
C40_KnownModify ==
    /\ oRestore.done
    /\ ~oRestore.dry_run
    /\ ~oRestore.error
    /\ oRestore.staged
    /\ Len(oRestore.replayed) = 2
    /\ UnknownModifies = {}
    /\ \E k \in DOMAIN oStore[oRestore.replayed[2]].index :
            ReplayedItem(2, k).operation = "modify"
    /\ oRestore.target # oRestore.before

====
